---- MODULE Spec2Model ----
(***************************************************************************)
(* Session / token lifecycle of the InsForge JavaScript SDK.               *)
(*                                                                         *)
(* The sources hold several revisions of the same subsystem.  The model    *)
(* follows one coherent revision for the refresh orchestration             *)
(*   HttpClient            src/unnamed/part_003                            *)
(*   Auth                  src/unnamed/part_001                            *)
(*   InsForgeClient        src/src/client.ts, lines 1-198                  *)
(*   TokenManager          src/unnamed/part_002, lines 242-357             *)
(*   session strategies    src/src/lib/session-storage.ts, lines 1-215     *)
(*   capability discovery  src/unnamed/part_004                            *)
(* and, for the storage claims, the dual-mode TokenManager of              *)
(* src/unnamed/part_002, lines 1-240.                                      *)
(*                                                                         *)
(* JavaScript runs one task to completion: an action of the model is one   *)
(* task (a call from the application, or the arrival of a network          *)
(* response) together with the whole chain of promise continuations it     *)
(* triggers, up to the next network await.                                 *)
(*                                                                         *)
(* Values.  An access token is an integer: 0 is null, -1 is the empty      *)
(* string '', n > 0 is the n-th token the backend minted.  A user is       *)
(* "u1", "u2" or "null" (JavaScript null).  A durable user record is the   *)
(* JSON text of a user, "" when the key is absent, or corrupt text.        *)
(***************************************************************************)
EXTENDS Integers, Sequences, FiniteSets, TLC

\* Tokens the backend may mint in one run (token 1 is the one of a session
\* that predates the run).
MaxTok == 3
MaxCalls == 2       \* calls the application makes in one run, next to start-up

\* Application requests issued through HttpClient in one run.
NumApi == 2

VARIABLES
    tm,         \* TokenManager: implementation, active strategy / mode, in-memory token and user
    storage,    \* the durable key-value store: items TOKEN_KEY and USER_KEY
    authFlag,   \* the isAuthenticated cookie
    http,       \* HttpClient: userToken, isRefreshing, refreshQueue
    proc,       \* the asynchronous calls in progress: position, pending HTTP requests, result
    nextTok,    \* the next token the backend mints
    settled,    \* the waiters the task just run settled, in order, each with its outcome
    last,       \* the task just run: the call made or the response delivered; for a
                \* TokenManager switch, what getSession() returned before it
    browser,    \* the host: whether it has a document (a page) or none (a server),
                \* whether the page is one of the hosted auth app;
                \* callback parameters in the URL, history entries, the PKCE
                \* verifier in sessionStorage, the CSRF cookie
    wire,       \* the requests the client has put on the network
    realtime    \* Realtime: the socket, subscribedChannels, the subscribe calls
                \* awaiting their acknowledgement

vars ==
    <<tm, storage, authFlag, http, proc, nextTok, settled, last, browser, wire, realtime>>

-----------------------------------------------------------------------------
(* JavaScript values *)

\* !token is false exactly for a non-empty string
Truthy(t) == t > 0

NullUser == "null"
Users == {"u1", "u2"}
Tokens == 1..MaxTok

\* JSON.stringify of a user value
JSONstringify(u) ==
    CASE u = "u1" -> "{u1}"
      [] u = "u2" -> "{u2}"
      [] OTHER -> "null"

\* JSON.parse succeeds on these texts and throws on any other
JSONvalid(str) == str \in {"{u1}", "{u2}", "null"}

JSONparse(str) ==
    CASE str = "{u1}" -> "u1"
      [] str = "{u2}" -> "u2"
      [] OTHER -> NullUser

\* getItem returns null for an absent key; !userStr holds for null and for ''
AbsentItem == ""
CorruptItem == "{bad"

Session(t, u) == [accessToken |-> t, user |-> u]
\* the null a getSession() returns
NoSession == [accessToken |-> 0, user |-> NullUser]

\* The state the operations below act on, as one record, at the start of a task.
State ==
    [tm |-> tm, storage |-> storage, authFlag |-> authFlag, http |-> http,
     proc |-> proc, nextTok |-> nextTok, settled |-> <<>>,
     document |-> browser.document]

\* The next state is the record s.
Commit(s) ==
    /\ tm' = s.tm
    /\ storage' = s.storage
    /\ authFlag' = s.authFlag
    /\ http' = s.http
    /\ proc' = s.proc
    /\ nextTok' = s.nextTok
    /\ settled' = s.settled
    /\ UNCHANGED <<browser, wire, realtime>>

-----------------------------------------------------------------------------
(* SecureSessionStorage: token and user in memory, auth flag cookie *)

\* setAuthFlag(authenticated) writes the cookie, and does nothing in a host
\* without document
setAuthFlag(s, authenticated) ==
    IF s.document THEN [s EXCEPT !.authFlag = authenticated] ELSE s

hasAuthFlag(s) == s.document /\ s.authFlag

\* Fault: a saveSession that leaves the auth flag alone.
Secure_saveSession_noFlag(s, sess) ==
    [s EXCEPT !.tm.accessToken = sess.accessToken, !.tm.user = sess.user]

Secure_saveSession(s, sess) ==
    setAuthFlag([s EXCEPT !.tm.accessToken = sess.accessToken,
                          !.tm.user = sess.user], TRUE)

Secure_getSession(s) ==
    IF ~Truthy(s.tm.accessToken) THEN NoSession
    ELSE Session(s.tm.accessToken, s.tm.user)

Secure_setAccessToken(s, t) == [s EXCEPT !.tm.accessToken = t]

Secure_setUser(s, u) == [s EXCEPT !.tm.user = u]

Secure_clearSession(s) ==
    setAuthFlag([s EXCEPT !.tm.accessToken = 0, !.tm.user = NullUser], FALSE)

\* Fault: a shouldAttemptRefresh that looks at the auth flag only.
Secure_shouldAttemptRefresh_flagOnly(s) == hasAuthFlag(s)

Secure_shouldAttemptRefresh(s) ==
    IF Truthy(s.tm.accessToken) THEN FALSE ELSE hasAuthFlag(s)

(* PersistentSessionStorage: token and user in the durable store *)

Persistent_saveSession(s, sess) ==
    [s EXCEPT !.storage.token = sess.accessToken,
              !.storage.user = JSONstringify(sess.user)]

Persistent_clearSession(s) ==
    [s EXCEPT !.storage.token = 0, !.storage.user = AbsentItem]

\* Fault: a getSession that tests the token against null only.
Persistent_getSession_emptyToken(s) ==
    IF s.storage.token = 0 \/ s.storage.user = AbsentItem THEN NoSession
    ELSE IF JSONvalid(s.storage.user)
         THEN Session(s.storage.token, JSONparse(s.storage.user))
         ELSE NoSession

\* getSession() returns a value and, on a corrupt user record, clears the store
Persistent_getSession(s) ==
    IF ~Truthy(s.storage.token) \/ s.storage.user = AbsentItem THEN NoSession
    ELSE IF JSONvalid(s.storage.user)
         THEN Session(s.storage.token, JSONparse(s.storage.user))
         ELSE NoSession

Persistent_afterGetSession(s) ==
    IF Truthy(s.storage.token) /\ s.storage.user # AbsentItem /\ ~JSONvalid(s.storage.user)
    THEN Persistent_clearSession(s)
    ELSE s

Persistent_setAccessToken(s, t) == [s EXCEPT !.storage.token = t]

Persistent_setUser(s, u) == [s EXCEPT !.storage.user = JSONstringify(u)]

-----------------------------------------------------------------------------
(* TokenManager delegating to a SessionStorageStrategy *)

saveSession(s, sess) ==
    IF s.tm.strategyId = "secure" THEN Secure_saveSession(s, sess)
    ELSE Persistent_saveSession(s, sess)

getSession(s) ==
    IF s.tm.strategyId = "secure" THEN Secure_getSession(s) ELSE Persistent_getSession(s)

afterGetSession(s) ==
    IF s.tm.strategyId = "secure" THEN s ELSE Persistent_afterGetSession(s)

getAccessToken(s) ==
    IF s.tm.strategyId = "secure" THEN s.tm.accessToken ELSE s.storage.token

setAccessToken(s, t) ==
    IF s.tm.strategyId = "secure" THEN Secure_setAccessToken(s, t)
    ELSE Persistent_setAccessToken(s, t)

setUser(s, u) ==
    IF s.tm.strategyId = "secure" THEN Secure_setUser(s, u) ELSE Persistent_setUser(s, u)

clearSession(s) ==
    IF s.tm.strategyId = "secure" THEN Secure_clearSession(s) ELSE Persistent_clearSession(s)

shouldAttemptRefresh(s) ==
    IF s.tm.strategyId = "secure" THEN Secure_shouldAttemptRefresh(s) ELSE FALSE

\* A strategy object as createSessionStorage(capabilities) builds it: a new
\* SecureSessionStorage holds nothing; a new PersistentSessionStorage() works on
\* localStorage, also when the strategy it replaces worked on the adapter of
\* config.storage.  s.storage is the store the durable strategy works on,
\* s.tm.shelved the content of the other one.
newStrategy(s, id) ==
    LET s1 == [s EXCEPT !.tm.strategyId = id, !.tm.accessToken = 0, !.tm.user = NullUser]
    IN  IF id = "persistent" /\ s.tm.custom
        THEN [s1 EXCEPT !.tm.custom = FALSE, !.tm.shelved = s.storage,
                        !.storage = s.tm.shelved]
        ELSE s1

setStrategy(s, id) ==
    LET existingSession == getSession(s)
        previousId == s.tm.strategyId
        s1 == newStrategy(afterGetSession(s), id)
    IN  IF existingSession # NoSession /\ previousId # id
        THEN saveSession(s1, existingSession)
        ELSE s1

-----------------------------------------------------------------------------
(* The dual-mode TokenManager (modes 'legacy' and 'modern') *)

Dual_clearSession(s) ==
    LET s1 == [s EXCEPT !.tm.accessToken = 0, !.tm.user = NullUser]
    IN  IF s.tm.mode = "modern"
        THEN [s1 EXCEPT !.authFlag = FALSE]
        ELSE [s1 EXCEPT !.storage.token = 0, !.storage.user = AbsentItem]

Dual_saveSession(s, sess) ==
    LET s1 == [s EXCEPT !.tm.accessToken = sess.accessToken, !.tm.user = sess.user]
    IN  IF s.tm.mode = "modern"
        THEN [s1 EXCEPT !.authFlag = TRUE]
        ELSE [s1 EXCEPT !.storage.token = sess.accessToken,
                        !.storage.user = JSONstringify(sess.user)]

Dual_getSession(s) ==
    IF s.tm.mode = "modern"
    THEN IF ~Truthy(s.tm.accessToken) THEN NoSession
         ELSE Session(s.tm.accessToken, s.tm.user)
    ELSE IF ~Truthy(s.storage.token) \/ s.storage.user = AbsentItem THEN NoSession
         ELSE IF JSONvalid(s.storage.user)
              THEN Session(s.storage.token, JSONparse(s.storage.user))
              ELSE NoSession

Dual_afterGetSession(s) ==
    IF /\ s.tm.mode = "legacy"
       /\ Truthy(s.storage.token) /\ s.storage.user # AbsentItem
       /\ ~JSONvalid(s.storage.user)
    THEN Dual_clearSession(s)
    ELSE s

Dual_setAccessToken(s, t) ==
    LET s1 == [s EXCEPT !.tm.accessToken = t]
    IN  IF s.tm.mode = "legacy" THEN [s1 EXCEPT !.storage.token = t] ELSE s1

Dual_setUser(s, u) ==
    LET s1 == [s EXCEPT !.tm.user = u]
    IN  IF s.tm.mode = "legacy" THEN [s1 EXCEPT !.storage.user = JSONstringify(u)] ELSE s1

\* setMode migrates the durable session into memory when it switches from
\* 'legacy' to 'modern'; the token is assigned before JSON.parse can throw.
Dual_setMode(s, mode) ==
    LET previousMode == s.tm.mode
        s1 == [s EXCEPT !.tm.mode = mode]
    IN  IF /\ mode = "modern" /\ previousMode = "legacy"
           /\ Truthy(s.storage.token) /\ s.storage.user # AbsentItem
        THEN IF JSONvalid(s.storage.user)
             THEN [s1 EXCEPT !.tm.accessToken = s.storage.token,
                             !.tm.user = JSONparse(s.storage.user),
                             !.storage.token = 0,
                             !.storage.user = AbsentItem,
                             !.authFlag = TRUE]
             ELSE [s1 EXCEPT !.tm.accessToken = s.storage.token,
                             !.storage.token = 0,
                             !.storage.user = AbsentItem]
        ELSE s1

Dual_getAccessToken(s) ==
    IF s.tm.mode = "modern" THEN s.tm.accessToken ELSE s.storage.token

-----------------------------------------------------------------------------
(* The TokenManager of src/src/lib/token-manager.ts (modes 'storage' and     *)
(* 'memory'): reads come from memory, the durable store is a copy.           *)

Mode_clearSession(s) ==
    [s EXCEPT !.tm.accessToken = 0, !.tm.user = NullUser,
              !.storage.token = 0, !.storage.user = AbsentItem]

Mode_setMemoryMode(s) ==
    LET s1 == IF s.tm.mode = "storage"
              THEN [s EXCEPT !.storage.token = 0, !.storage.user = AbsentItem]
              ELSE s
    IN  [s1 EXCEPT !.tm.mode = "memory"]

\* Fault: a loadFromStorage whose catch does nothing.
Mode_loadFromStorage_unhealed(s) ==
    IF Truthy(s.storage.token) /\ s.storage.user # AbsentItem
    THEN IF JSONvalid(s.storage.user)
         THEN [s EXCEPT !.tm.accessToken = s.storage.token,
                        !.tm.user = JSONparse(s.storage.user)]
         ELSE [s EXCEPT !.tm.accessToken = s.storage.token]
    ELSE s

\* loadFromStorage assigns the token, then JSON.parse; its catch clears memory
\* and the durable store
Mode_loadFromStorage(s) ==
    IF Truthy(s.storage.token) /\ s.storage.user # AbsentItem
    THEN IF JSONvalid(s.storage.user)
         THEN [s EXCEPT !.tm.accessToken = s.storage.token,
                        !.tm.user = JSONparse(s.storage.user)]
         ELSE Mode_clearSession([s EXCEPT !.tm.accessToken = s.storage.token])
    ELSE s

\* Fault: a setStorageMode that does not load the durable session.
Mode_setStorageMode_unloaded(s) == [s EXCEPT !.tm.mode = "storage"]

Mode_setStorageMode(s) == Mode_loadFromStorage([s EXCEPT !.tm.mode = "storage"])

Mode_saveSession(s, sess) ==
    LET s1 == [s EXCEPT !.tm.accessToken = sess.accessToken, !.tm.user = sess.user]
    IN  IF s.tm.mode = "storage"
        THEN [s1 EXCEPT !.storage.token = sess.accessToken,
                        !.storage.user = JSONstringify(sess.user)]
        ELSE s1

Mode_getSession(s) ==
    IF ~Truthy(s.tm.accessToken) \/ s.tm.user = NullUser THEN NoSession
    ELSE Session(s.tm.accessToken, s.tm.user)

Mode_getAccessToken(s) == s.tm.accessToken

Mode_setAccessToken(s, t) ==
    LET s1 == [s EXCEPT !.tm.accessToken = t]
    IN  IF s.tm.mode = "storage" THEN [s1 EXCEPT !.storage.token = t] ELSE s1

Mode_setUser(s, u) ==
    LET s1 == [s EXCEPT !.tm.user = u]
    IN  IF s.tm.mode = "storage" THEN [s1 EXCEPT !.storage.user = JSONstringify(u)] ELSE s1

hasStoredSession(s) == Truthy(s.storage.token)

-----------------------------------------------------------------------------
(* The asynchronous calls of one run *)

ApiProcs == {<<"api", i>> : i \in 1..NumApi}    \* http.get(...) by the application
SignInProc == <<"signin", 1>>                   \* auth.signInWithPassword(...)
InitProc == <<"init", 1>>                       \* InsForgeClient.initializeAsync()
UserProc == <<"user", 1>>                       \* auth.getCurrentUser()
Procs == ApiProcs \cup {SignInProc, InitProc, UserProc}

\* One pending performRequest call: st is "sent" (awaiting fetch), "queued"
\* (awaiting the promise pushed on refreshQueue) or "refreshing" (awaiting the
\* refresh callback it invoked); tok is the bearer token it carries; late tells
\* that it was sent before a sign-in that has since saved its session.
Frame(st, retry, tok) == [st |-> st, retry |-> retry, tok |-> tok, late |-> FALSE]

\* The stack of p holds its request and, above it, the refresh POST of the
\* refresh callback that request invoked.
Depth(s, p) == Len(s.proc[p].stack)
Top(s, p) == s.proc[p].stack[Depth(s, p)]

\* the endpoint of the request at depth d of p
KindOf(s, p, d) == IF d > 1 THEN "refresh" ELSE s.proc[p].stage

Reply(st, tok, user) == [st |-> st, tok |-> tok, user |-> user]
Failure(st) == Reply(st, 0, NullUser)

finish(s, p, result) == [s EXCEPT !.proc[p].pc = "done", !.proc[p].result = result]

-----------------------------------------------------------------------------
(* HttpClient *)

setAuthToken(s, t) == [s EXCEPT !.http.userToken = t]

\* this.userToken || this.anonKey: 0 stands for the anon key
authToken(s) == IF Truthy(s.http.userToken) THEN s.http.userToken ELSE 0

\* performRequest(method, path, options, false) up to its await of fetch; sends
\* counts how often the request() of the call was put on the network
send(s, p) ==
    [s EXCEPT !.proc[p].stack = Append(@, Frame("sent", FALSE, authToken(s))),
              !.proc[p].sends = IF Depth(s, p) = 0 THEN 1 ELSE @]

\* Fault: a re-issue that is not marked as a retry.
resend_unmarked(s, p) ==
    LET d == Depth(s, p)
    IN  [s EXCEPT !.proc[p].stack[d] = Frame("sent", FALSE, authToken(s)),
                  !.proc[p].sends = IF d = 1 THEN @ + 1 ELSE @]

\* performRequest(method, path, options, true), called by the request waiting at
\* the top of p's stack, up to its await of fetch
resend(s, p) ==
    LET d == Depth(s, p)
    IN  [s EXCEPT !.proc[p].stack[d] = Frame("sent", TRUE, authToken(s)),
                  !.proc[p].sends = IF d = 1 THEN @ + 1 ELSE @]

\* Fault: handleTokenRefresh without the isRefreshing test.
handleTokenRefresh_unguarded(s, p) ==
    LET d == Depth(s, p)
    IN  send([s EXCEPT !.http.isRefreshing = TRUE,
                       !.proc[p].stack[d].st = "refreshing"], p)

\* handleTokenRefresh up to its first await: queue behind the refresh in
\* flight, or become the one that runs the refresh callback, which calls
\* auth.refreshToken(), which posts to /api/auth/refresh through this client.
handleTokenRefresh(s, p) ==
    LET d == Depth(s, p)
    IN  IF s.http.isRefreshing
        THEN [s EXCEPT !.http.refreshQueue = Append(@, <<p, d>>),
                       !.proc[p].stack[d].st = "queued"]
        ELSE send([s EXCEPT !.http.isRefreshing = TRUE,
                            !.proc[p].stack[d].st = "refreshing"], p)

\* Fault: the waiters visited last-queued first.
forEachOrder_reversed(q) == [i \in 1..Len(q) |-> q[Len(q) + 1 - i]]

\* the order in which refreshQueue.forEach visits the waiters
forEachOrder(q) == q

-----------------------------------------------------------------------------
(* Auth *)

\* Fault: a refreshToken() that hands the new token to the HttpClient only.
refreshToken_httpOnly(s, r) ==
    IF r.st = "ok" /\ Truthy(r.tok)
    THEN [s |-> setAuthToken(s, r.tok), token |-> r.tok]
    ELSE IF r.st \in {"e401", "e403"}
         THEN [s |-> setAuthToken(clearSession(s), 0), token |-> 0]
         ELSE [s |-> s, token |-> 0]

\* refreshToken() after its POST returned reply r or threw: the token it
\* returns, 0 when it throws.
refreshToken(s, r) ==
    IF r.st = "ok" /\ Truthy(r.tok)
    THEN LET s1 == setAuthToken(setAccessToken(s, r.tok), r.tok)
         IN  [s |-> IF r.user # NullUser THEN setUser(s1, r.user) ELSE s1,
              token |-> r.tok]
    ELSE IF r.st \in {"e401", "e403"}
         THEN [s |-> setAuthToken(clearSession(s), 0), token |-> 0]
         ELSE [s |-> s, token |-> 0]

\* every request in flight now predates a saved sign-in session
markLate(s) ==
    [s EXCEPT !.proc = [p \in Procs |->
        [@[p] EXCEPT !.stack = [i \in 1..Len(@) |->
            IF @[i].st = "sent" THEN [@[i] EXCEPT !.late = TRUE] ELSE @[i]]]]]

\* signInWithPassword after its POST (outside the hosted-auth pages); data is
\* the access token of the response it returns to the caller
signInWithPassword(s, r) ==
    IF r.st = "ok"
    THEN LET accessToken == IF Truthy(r.tok) THEN r.tok ELSE -1
             s1 == setAuthToken(saveSession(s, Session(accessToken, r.user)), accessToken)
         IN  finish([markLate(s1) EXCEPT !.proc[SignInProc].data = accessToken],
                    SignInProc, "ok")
    ELSE finish(s, SignInProc, r.st)

\* Fault: a signOut that forgets the stored session.
signOutLocal_keepsSession(s) == setAuthToken(s, 0)

\* signOut from its local clear on
signOutLocal(s) == setAuthToken(clearSession(s), 0)

\* getCurrentUser after its GET /api/auth/sessions/current
getCurrentUser_fetched(s, r) ==
    IF r.st = "ok" THEN finish(s, UserProc, "user")
    ELSE IF r.st = "e401"
         THEN IF s.tm.strategyId = "secure"
              THEN send([s EXCEPT !.proc[UserProc].stage = "logout"], UserProc)
              ELSE finish(signOutLocal(s), UserProc, "nouser")
         ELSE finish(s, UserProc, r.st)

\* getCurrentUser once it holds an access token
getCurrentUser_fetch(s, accessToken) ==
    send([setAuthToken(s, accessToken) EXCEPT !.proc[UserProc].stage = "current"], UserProc)

\* getCurrentUser after the refreshToken() it awaited
getCurrentUser_refreshed(s, r) ==
    LET rt == refreshToken(s, r)
    IN  IF Truthy(rt.token) THEN getCurrentUser_fetch(rt.s, rt.token)
        ELSE finish(rt.s, UserProc, "nouser")

-----------------------------------------------------------------------------
(* InsForgeClient *)

\* Fault: the memory-only strategy is chosen when either capability is stated.
createSessionStorage_either(caps) ==
    IF caps.secureSessionStorage \/ caps.refreshTokens THEN "secure" ELSE "persistent"

createSessionStorage(caps) ==
    IF caps.secureSessionStorage /\ caps.refreshTokens THEN "secure" ELSE "persistent"

\* initializeAsync after the refreshToken() it awaited; the result names the
\* reply the refresh failed on
initializeAsync_refreshed(s, r) ==
    LET rt == refreshToken(s, r)
    IN  IF Truthy(rt.token)
        THEN finish(setAuthToken(rt.s, rt.token), InitProc, "ok")
        ELSE finish(setAuthToken(clearSession(rt.s), 0), InitProc,
                    IF r.st = "ok" THEN "notoken" ELSE r.st)

\* the continuation of the call that issued p's request, once that request
\* returned reply r or threw
complete(s, p, r) ==
    CASE s.proc[p].stage = "api" -> finish(s, p, r.st)
      [] s.proc[p].stage = "signin" -> signInWithPassword(s, r)
      [] p = InitProc -> initializeAsync_refreshed(s, r)
      [] s.proc[p].stage = "refresh" -> getCurrentUser_refreshed(s, r)
      [] s.proc[p].stage = "current" -> getCurrentUser_fetched(s, r)
      [] OTHER -> finish(signOutLocal(s), UserProc, "nouser")

-----------------------------------------------------------------------------
(* The promise chain a network response sets off *)

RECURSIVE frameDone(_, _, _)
RECURSIVE continueWaiters(_, _, _)

\* handleTokenRefresh of the request at the top of p's stack, after the
\* refresh callback returned newToken (0 is null): settle the waiters, then the
\* initiator and the waiters continue, in that order.
resumeRefresh(s, p, newToken) ==
    LET q == forEachOrder(s.http.refreshQueue)
        s1 == [s EXCEPT !.http.refreshQueue = <<>>,
                        !.http.isRefreshing = FALSE,
                        !.settled = @ \o [i \in 1..Len(q) |-> <<q[i][1], q[i][2], newToken>>]]
        s2 == IF Truthy(newToken)
              THEN resend(setAuthToken(s1, newToken), p)
              ELSE frameDone(s1, p, Failure("e401"))
    IN  continueWaiters(s2, q, newToken)

\* the performRequest calls that awaited a queued promise continue
continueWaiters(s, q, newToken) ==
    IF q = <<>> THEN s
    ELSE LET w == Head(q)[1]
             s1 == IF Truthy(newToken)
                   THEN resend(setAuthToken(s, newToken), w)
                   ELSE frameDone(s, w, Failure("refresh_failed"))
         IN  continueWaiters(s1, Tail(q), newToken)

\* the request at the top of p's stack returns reply r or throws
frameDone(s, p, r) ==
    LET d == Depth(s, p)
        s1 == [s EXCEPT !.proc[p].stack = SubSeq(@, 1, d - 1)]
    IN  IF d = 1 THEN complete(s1, p, r)
        ELSE LET rt == refreshToken(s1, r)
             IN  resumeRefresh(rt.s, p, rt.token)

\* performRequest after its await of fetch
onResponse(s, p, r) ==
    IF r.st = "e401" /\ ~Top(s, p).retry
    THEN handleTokenRefresh(s, p)
    ELSE frameDone(s, p, r)

-----------------------------------------------------------------------------
(* The backend *)

MayMint == nextTok <= MaxTok

\* what the backend (or the network) may answer to a request of each kind
Replies(kind) ==
    CASE kind = "refresh" ->
            {Reply("ok", nextTok, u) : u \in IF MayMint THEN {NullUser, "u1"} ELSE {}}
            \cup {Reply("ok", 0, NullUser), Failure("e401"), Failure("e403"), Failure("net")}
      [] kind = "signin" ->
            {Reply("ok", nextTok, u) : u \in IF MayMint THEN {"u1"} ELSE {}}
            \cup {Reply("ok", 0, "u1"), Failure("e401"), Failure("net")}
      [] OTHER -> {Reply("ok", 0, NullUser), Failure("e401"), Failure("e403"), Failure("net")}

-----------------------------------------------------------------------------
(* Initial state: the client as its constructor leaves it, in a browser, with *)
(* or without a session in the durable store (localStorage, or the adapter    *)
(* given as config.storage) and an auth flag cookie left by an earlier page.  *)

NoLast == [op |-> "none", before |-> NoSession, from |-> "none", to |-> "none"]

\* Realtime as its constructor leaves it: no socket, no channel
NewRealtime == [socket |-> "none", subscribedChannels |-> {}, pending |-> {}, calls |-> 0]

\* a page opened on a plain URL: no callback parameter, one history entry, no
\* PKCE verifier in sessionStorage, no CSRF cookie
PlainPage ==
    [document |-> TRUE, hosted |-> FALSE, params |-> {}, entries |-> 1, verifier |-> 0,
     csrf |-> 0]

\* a host without document (a server): no URL, no cookie
NoPage == [PlainPage EXCEPT !.document = FALSE]

NewTokenManager(impl) ==
    [impl |-> impl, strategyId |-> "persistent",
     mode |-> IF impl = "mode" THEN "storage" ELSE "legacy",
     accessToken |-> 0, user |-> NullUser,
     custom |-> FALSE, shelved |-> [token |-> 0, user |-> AbsentItem]]

StageOf(p) ==
    CASE p \in ApiProcs -> "api"
      [] p = SignInProc -> "signin"
      [] OTHER -> "refresh"

NoCalls ==
    [p \in Procs |->
        [pc |-> IF p = InitProc THEN "discover" ELSE "idle",
         stack |-> <<>>, stage |-> StageOf(p), sends |-> 0, result |-> "none", data |-> 0]]

Init ==
    /\ \E custom \in BOOLEAN : tm = [NewTokenManager("strategy") EXCEPT !.custom = custom]
    /\ \E existing \in BOOLEAN :
          /\ storage = IF existing THEN [token |-> 1, user |-> "{u1}"]
                       ELSE [token |-> 0, user |-> AbsentItem]
          /\ http = [userToken |-> IF existing THEN 1 ELSE 0,
                     isRefreshing |-> FALSE, refreshQueue |-> <<>>]
    /\ authFlag \in BOOLEAN
    /\ proc = NoCalls
    /\ nextTok = 2
    /\ settled = <<>>
    /\ last = NoLast
    /\ browser = PlainPage
    /\ wire = {}
    /\ realtime = NewRealtime

-----------------------------------------------------------------------------
(* Actions: one task each *)

\* the calls the application has made so far
Called == {p \in Procs \ {InitProc} : proc[p].pc # "idle"}

\* the application calls http.get / post / ...; the calls are numbered in the
\* order they are made
ApiRequest(p) ==
    /\ proc[p].pc = "idle"
    /\ Cardinality(Called) < MaxCalls
    /\ \A q \in ApiProcs : q[2] < p[2] => proc[q].pc # "idle"
    /\ Commit(send([State EXCEPT !.proc[p].pc = "run"], p))
    /\ last' = [op |-> "call", p |-> p]

\* the application calls auth.signInWithPassword
SignIn ==
    /\ proc[SignInProc].pc = "idle"
    /\ Cardinality(Called) < MaxCalls
    /\ Commit(send([State EXCEPT !.proc[SignInProc].pc = "run"], SignInProc))
    /\ last' = [op |-> "call", p |-> SignInProc]

\* discoverCapabilities returns in initializeAsync
Discovered(caps) ==
    /\ proc[InitProc].pc = "discover"
    /\ LET s1 == setStrategy(State, createSessionStorage(caps))
       IN  IF caps.refreshTokens /\ shouldAttemptRefresh(s1)
           THEN Commit(send([s1 EXCEPT !.proc[InitProc].pc = "run"], InitProc))
           ELSE Commit(finish(s1, InitProc, "ok"))
    /\ last' = [op |-> "discovered", p |-> InitProc]

\* the application calls auth.getCurrentUser
GetCurrentUser ==
    /\ proc[UserProc].pc = "idle"
    /\ Cardinality(Called) < MaxCalls
    /\ LET s == [State EXCEPT !.proc[UserProc].pc = "run"]
           accessToken == getAccessToken(s)
       IN  IF ~Truthy(accessToken) /\ shouldAttemptRefresh(s)
           THEN Commit(send(s, UserProc))
           ELSE IF ~Truthy(accessToken)
                THEN Commit(finish(s, UserProc, "nouser"))
                ELSE Commit(getCurrentUser_fetch(s, accessToken))
    /\ last' = [op |-> "call", p |-> UserProc]

\* the response to the request at the top of p's stack arrives
Response(p, r) ==
    /\ proc[p].pc = "run"
    /\ Top(State, p).st = "sent"
    /\ r \in Replies(KindOf(State, p, Depth(State, p)))
    /\ Commit(onResponse(
           [State EXCEPT !.nextTok = IF r.tok = nextTok THEN @ + 1 ELSE @], p, r))
    /\ last' = [op |-> "response", p |-> p, r |-> r]

Capabilities == [secureSessionStorage : BOOLEAN, refreshTokens : BOOLEAN]

AllReplies == Replies("refresh") \cup Replies("signin") \cup Replies("api")

Next ==
    \/ \E p \in ApiProcs : ApiRequest(p)
    \/ SignIn
    \/ \E caps \in Capabilities : Discovered(caps)
    \/ GetCurrentUser
    \/ \E p \in Procs : \E r \in AllReplies : Response(p, r)

Spec == Init /\ [][Next]_vars

\* every network call gets a response: the health request of the start-up
\* returns, and the fetch of every request sent settles (answer or failure)
FairSpec ==
    /\ Spec
    /\ WF_vars(\E caps \in Capabilities : Discovered(caps))
    /\ \A p \in Procs : WF_vars(\E r \in AllReplies : Response(p, r))

-----------------------------------------------------------------------------
(* The TokenManager on its own: the application (the class is exported) or   *)
(* the client applies its operations in any order, on either implementation. *)

TM_getSession(s) ==
    CASE s.tm.impl = "dual" -> Dual_getSession(s)
      [] s.tm.impl = "mode" -> Mode_getSession(s)
      [] OTHER -> getSession(s)

TM_afterGetSession(s) ==
    CASE s.tm.impl = "dual" -> Dual_afterGetSession(s)
      [] s.tm.impl = "mode" -> s
      [] OTHER -> afterGetSession(s)

TM_getAccessToken(s) ==
    CASE s.tm.impl = "dual" -> Dual_getAccessToken(s)
      [] s.tm.impl = "mode" -> Mode_getAccessToken(s)
      [] OTHER -> getAccessToken(s)

TM_saveSession(s, sess) ==
    CASE s.tm.impl = "dual" -> Dual_saveSession(s, sess)
      [] s.tm.impl = "mode" -> Mode_saveSession(s, sess)
      [] OTHER -> saveSession(s, sess)

TM_setAccessToken(s, t) ==
    CASE s.tm.impl = "dual" -> Dual_setAccessToken(s, t)
      [] s.tm.impl = "mode" -> Mode_setAccessToken(s, t)
      [] OTHER -> setAccessToken(s, t)

TM_setUser(s, u) ==
    CASE s.tm.impl = "dual" -> Dual_setUser(s, u)
      [] s.tm.impl = "mode" -> Mode_setUser(s, u)
      [] OTHER -> setUser(s, u)

TM_clearSession(s) ==
    CASE s.tm.impl = "dual" -> Dual_clearSession(s)
      [] s.tm.impl = "mode" -> Mode_clearSession(s)
      [] OTHER -> clearSession(s)

\* the durable store holds a token together with a user record that is not JSON
DurableCorrupt(s) ==
    Truthy(s.storage.token) /\ s.storage.user # AbsentItem /\ ~JSONvalid(s.storage.user)

\* the manager keeps its session in the durable store
DurableActive(s) ==
    CASE s.tm.impl = "dual" -> s.tm.mode = "legacy"
      [] s.tm.impl = "mode" -> s.tm.mode = "storage"
      [] OTHER -> s.tm.strategyId = "persistent"

\* the next state of the TokenManager and its stores is that of record s
CommitTM(s) ==
    /\ tm' = s.tm
    /\ storage' = s.storage
    /\ authFlag' = s.authFlag
    /\ UNCHANGED <<http, proc, nextTok, settled, browser, wire, realtime>>

InitTM ==
    /\ \E impl \in {"strategy", "dual", "mode"} : tm = NewTokenManager(impl)
    /\ storage \in {[token |-> 0, user |-> AbsentItem],
                    [token |-> 1, user |-> "{u1}"],
                    [token |-> 1, user |-> CorruptItem]}
    /\ http = [userToken |-> 0, isRefreshing |-> FALSE, refreshQueue |-> <<>>]
    /\ proc = NoCalls
    /\ nextTok = 2
    /\ settled = <<>>
    /\ last = NoLast
    \* a page, with or without the auth flag cookie of an earlier visit, or, for
    \* the strategies, a host without document
    /\ \/ browser = PlainPage /\ authFlag \in BOOLEAN
       \/ browser = NoPage /\ authFlag = FALSE /\ tm.impl = "strategy"
    /\ wire = {}
    /\ realtime = NewRealtime

\* the operation just applied, for those that record nothing else
Applied(op) == [NoLast EXCEPT !.op = op]

SaveSession(t, u) ==
    /\ CommitTM(TM_saveSession(State, Session(t, u)))
    /\ last' = Applied("saveSession")

\* getSession(): last records what it returned and whether the durable store
\* was corrupt when it was called
GetSession ==
    /\ CommitTM(TM_afterGetSession(State))
    /\ last' = [op |-> "getSession", before |-> TM_getSession(State),
                corrupt |-> DurableCorrupt(State)]

SetAccessToken(t) ==
    /\ CommitTM(TM_setAccessToken(State, t))
    /\ last' = Applied("setAccessToken")

SetUser(u) ==
    /\ CommitTM(TM_setUser(State, u))
    /\ last' = Applied("setUser")

ClearSession ==
    /\ CommitTM(TM_clearSession(State))
    /\ last' = Applied("clearSession")

\* shouldAttemptRefresh() of the strategy in use: last records what it returned
ShouldAttemptRefresh ==
    /\ tm.impl = "strategy"
    /\ CommitTM(State)
    /\ last' = [op |-> "shouldAttemptRefresh", result |-> shouldAttemptRefresh(State)]

SetStrategy(id) ==
    /\ tm.impl = "strategy"
    /\ CommitTM(setStrategy(State, id))
    /\ last' = [op |-> "setStrategy", before |-> getSession(State),
                from |-> tm.strategyId, to |-> id]

SetMode(mode) ==
    /\ tm.impl = "dual"
    /\ CommitTM(Dual_setMode(State, mode))
    /\ last' = [op |-> "setMode", before |-> Dual_getSession(State),
                from |-> tm.mode, to |-> mode]

SetMemoryMode ==
    /\ tm.impl = "mode"
    /\ CommitTM(Mode_setMemoryMode(State))
    /\ last' = [op |-> "setMemoryMode", before |-> Mode_getSession(State),
                corrupt |-> DurableCorrupt(State)]

SetStorageMode ==
    /\ tm.impl = "mode"
    /\ CommitTM(Mode_setStorageMode(State))
    /\ last' = [op |-> "setStorageMode", before |-> Mode_getSession(State),
                corrupt |-> DurableCorrupt(State)]

NextTM ==
    \/ \E t \in Tokens \cup {-1} : \E u \in Users : SaveSession(t, u)
    \/ GetSession
    \/ \E t \in Tokens \cup {-1} : SetAccessToken(t)
    \/ \E u \in Users : SetUser(u)
    \/ ClearSession
    \/ ShouldAttemptRefresh
    \/ \E id \in {"secure", "persistent"} : SetStrategy(id)
    \/ \E mode \in {"legacy", "modern"} : SetMode(mode)
    \/ SetMemoryMode
    \/ SetStorageMode

SpecTM == InitTM /\ [][NextTM]_vars

-----------------------------------------------------------------------------
(* Start-up of the Auth module of src/src/modules/auth.ts (second revision):  *)
(* callback detection with the PKCE code exchange, restoreSession and         *)
(* signInWithOAuth, over the TokenManager of token-manager.ts and the plain   *)
(* HttpClient of src/src/lib/http-client.ts (no refresh, no retry).           *)
(*                                                                             *)
(* A PKCE verifier is a positive integer, 0 is null; a CSRF token is the      *)
(* number of the access token it was issued with, 0 is none.                  *)

\* handlings of the auth callback in one run: the constructor's and duplicates
MaxCallbacks == 2

CallbackProcs == {<<"callback", i>> : i \in 1..MaxCallbacks}
RestoreProc == <<"restore", 1>>         \* auth.restoreSession()
OAuthProc == <<"oauth", 1>>             \* auth.signInWithOAuth(...)
AuthProcs == CallbackProcs \cup {RestoreProc, OAuthProc}

\* the state the Auth operations act on, as one record, at the start of a task
AuthState ==
    [tm |-> tm, storage |-> storage, authFlag |-> authFlag, http |-> http,
     proc |-> proc, nextTok |-> nextTok, browser |-> browser, wire |-> wire,
     document |-> browser.document]

\* the next state is the record s
CommitAuth(s) ==
    /\ tm' = s.tm
    /\ storage' = s.storage
    /\ authFlag' = s.authFlag
    /\ http' = s.http
    /\ proc' = s.proc
    /\ nextTok' = s.nextTok
    /\ browser' = s.browser
    /\ wire' = s.wire
    /\ settled' = <<>>
    /\ UNCHANGED realtime

\* the URL parameters cleanupAuthCallbackUrl deletes
CallbackParams == {"code", "access_token", "user_id", "email", "name", "csrf_token", "error"}

\* the parameters of a legacy callback that make detectAuthCallback save a session
LegacyParams == {"access_token", "user_id", "email"}

\* the access token, the user and the CSRF token a legacy callback URL carries
CallbackToken == 1
CallbackUser == "u1"
CallbackCsrf == 1

(* CSRF cookie helpers of token-manager.ts *)

getCsrfToken(s) == s.browser.csrf

setCsrfToken(s, c) == [s EXCEPT !.browser.csrf = c]

clearCsrfToken(s) == [s EXCEPT !.browser.csrf = 0]

(* PKCE helpers *)

\* the verifier the page that started the sign-in left in sessionStorage, the
\* one generateCodeVerifier draws in this run, and one drawn elsewhere (hosted
\* auth) whose challenge the application passes in
StoredVerifier == 1
FreshVerifier == 2
HostedVerifier == 3
Verifiers == {StoredVerifier, FreshVerifier, HostedVerifier}

\* Fault: the challenge is the verifier itself (method 'plain').
generateCodeChallenge_plain(v) == v

\* the SHA-256 digest of the verifier, base64url-encoded: a value that is not a
\* verifier (100 + v stands for the digest of v) and that differs for different
\* verifiers
generateCodeChallenge(v) == 100 + v

storePkceVerifier(s, v) == [s EXCEPT !.browser.verifier = v]

\* Fault: a consumePkceVerifier that reads without removing.
consumePkceVerifier_kept(s) == s

\* consumePkceVerifier returns s.browser.verifier and leaves this state
consumePkceVerifier(s) == [s EXCEPT !.browser.verifier = 0]

\* generateAndStorePkce stores FreshVerifier; it returns its challenge
generateAndStorePkce(s) == storePkceVerifier(s, FreshVerifier)

\* the page is served by the hosted auth app (localhost:7130, *.insforge.app)
isHostedAuthEnvironment(s) == s.browser.hosted

(* HttpClient.request up to its await of fetch *)

Request(p, path, verifier, challenge, csrf) ==
    [by |-> p, path |-> path, code_verifier |-> verifier,
     code_challenge |-> challenge, csrf |-> csrf]

request(s, p, req) ==
    [s EXCEPT !.wire = @ \cup {req}, !.proc[p].pc = "sent"]

\* the call p is over
return(s, p, result) == [s EXCEPT !.proc[p].pc = "done", !.proc[p].result = result]

(* Auth: callback handling *)

\* cleanupAuthCallbackUrl: history.replaceState with the callback parameters
\* deleted
cleanupAuthCallbackUrl(s) == [s EXCEPT !.browser.params = @ \ CallbackParams]

\* localStorage.setItem may throw (quota exceeded, storage disabled): fault
\* names the setItem of saveSession that throws, "none" if neither does
StorageFaults == {"none", "token", "user"}

saveSessionThrows(s, fault) == s.tm.mode = "storage" /\ fault # "none"

\* TokenManager.saveSession up to the setItem that throws
saveSessionUpTo(s, sess, fault) ==
    LET s1 == [s EXCEPT !.tm.accessToken = sess.accessToken, !.tm.user = sess.user]
    IN  IF ~saveSessionThrows(s, fault) THEN Mode_saveSession(s, sess)
        ELSE IF fault = "token" THEN s1
        ELSE [s1 EXCEPT !.storage.token = sess.accessToken]

\* exchangeAuthorizationCode up to its await of the POST /api/auth/exchange
exchangeAuthorizationCode(s, p) ==
    request(consumePkceVerifier(s), p,
            Request(p, "exchange", s.browser.verifier, 0, 0))

\* Fault: an exchange that ignores the CSRF token of the response.
exchangeAuthorizationCode_answered_noMemoryMode(s, p, r, fault) ==
    IF r.st = "ok" /\ Truthy(r.tok) /\ r.user # NullUser
    THEN LET s2 == setAuthToken(s, r.tok)
             s3 == saveSessionUpTo(s2, Session(r.tok, r.user), fault)
         IN  return(cleanupAuthCallbackUrl(s3), p,
                    IF saveSessionThrows(s2, fault) THEN "failed" ELSE "ok")
    ELSE return(cleanupAuthCallbackUrl(s), p, IF r.st = "ok" THEN "ok" ELSE "failed")

\* Fault: the catch of exchangeAuthorizationCode leaves the URL as it is.
exchangeAuthorizationCode_answered_uncleaned(s, p, r, fault) ==
    IF r.st = "ok" /\ Truthy(r.tok) /\ r.user # NullUser
    THEN LET s1 == IF r.csrf > 0 THEN setCsrfToken(Mode_setMemoryMode(s), r.csrf) ELSE s
             s2 == setAuthToken(s1, r.tok)
             s3 == saveSessionUpTo(s2, Session(r.tok, r.user), fault)
         IN  IF saveSessionThrows(s2, fault) THEN return(s3, p, "failed")
             ELSE return(cleanupAuthCallbackUrl(s3), p, "ok")
    ELSE IF r.st = "ok" THEN return(cleanupAuthCallbackUrl(s), p, "ok")
    ELSE return(s, p, "failed")

\* exchangeAuthorizationCode after its await: reply r arrived or fetch threw
exchangeAuthorizationCode_answered(s, p, r, fault) ==
    IF r.st = "ok" /\ Truthy(r.tok) /\ r.user # NullUser
    THEN LET s1 == IF r.csrf > 0 THEN setCsrfToken(Mode_setMemoryMode(s), r.csrf) ELSE s
             s2 == setAuthToken(s1, r.tok)
             s3 == saveSessionUpTo(s2, Session(r.tok, r.user), fault)
         IN  return(cleanupAuthCallbackUrl(s3), p,
                    IF saveSessionThrows(s2, fault) THEN "failed" ELSE "ok")
    ELSE return(cleanupAuthCallbackUrl(s), p, IF r.st = "ok" THEN "ok" ELSE "failed")

\* detectAuthCallback, the whole synchronous part
detectAuthCallback(s, p, fault) ==
    IF "code" \in s.browser.params THEN exchangeAuthorizationCode(s, p)
    ELSE IF LegacyParams \subseteq s.browser.params
    THEN LET s1 == IF "csrf_token" \in s.browser.params
                   THEN setCsrfToken(Mode_setMemoryMode(s), CallbackCsrf)
                   ELSE s
             s2 == saveSessionUpTo(s1, Session(CallbackToken, CallbackUser), fault)
         IN  IF saveSessionThrows(s1, fault) THEN return(s2, p, "skipped")
             ELSE return(cleanupAuthCallbackUrl(setAuthToken(s2, CallbackToken)), p, "ok")
    ELSE return(s, p, "none")

(* Auth: restoreSession and signInWithOAuth *)

\* Fault: a restoreSession that skips the test of the token in memory.
restoreSession_refreshFirst(s, p) ==
    request(s, p, Request(p, "refresh", 0, 0, getCsrfToken(s)))

\* restoreSession up to its await of the POST /api/auth/refresh
restoreSession(s, p) ==
    IF Truthy(Mode_getAccessToken(s)) THEN return(s, p, "loggedIn")
    ELSE request(s, p, Request(p, "refresh", 0, 0, getCsrfToken(s)))

\* Fault: a restoreSession that answers 401/403 by switching to storage mode.
restoreSession_answered_downgrade(s, p, r) ==
    CASE r.st = "ok" /\ Truthy(r.tok) ->
            LET s1 == setAuthToken(Mode_setAccessToken(Mode_setMemoryMode(s), r.tok), r.tok)
                s2 == IF r.user # NullUser THEN Mode_setUser(s1, r.user) ELSE s1
                s3 == IF r.csrf > 0 THEN setCsrfToken(s2, r.csrf) ELSE s2
            IN  return(s3, p, "loggedIn")
      [] r.st = "e404" ->
            LET s1 == Mode_setStorageMode(s)
                token == Mode_getAccessToken(s1)
            IN  IF Truthy(token) THEN return(setAuthToken(s1, token), p, "loggedIn")
                ELSE return(s1, p, "loggedOut")
      [] r.st \in {"e401", "e403"} ->
            return(clearCsrfToken(Mode_setStorageMode(s)), p, "loggedOut")
      [] OTHER -> return(s, p, "loggedOut")

\* restoreSession after its await: reply r arrived or fetch threw
restoreSession_answered(s, p, r) ==
    CASE r.st = "ok" /\ Truthy(r.tok) ->
            LET s1 == setAuthToken(Mode_setAccessToken(Mode_setMemoryMode(s), r.tok), r.tok)
                s2 == IF r.user # NullUser THEN Mode_setUser(s1, r.user) ELSE s1
                s3 == IF r.csrf > 0 THEN setCsrfToken(s2, r.csrf) ELSE s2
            IN  return(s3, p, "loggedIn")
      [] r.st = "e404" ->
            LET s1 == Mode_setStorageMode(s)
                token == Mode_getAccessToken(s1)
            IN  IF Truthy(token) THEN return(setAuthToken(s1, token), p, "loggedIn")
                ELSE return(s1, p, "loggedOut")
      [] r.st \in {"e401", "e403"} ->
            return(clearCsrfToken(Mode_setMemoryMode(s)), p, "loggedOut")
      [] OTHER -> return(s, p, "loggedOut")

\* signInWithOAuth up to its await of the GET /api/auth/oauth/{provider};
\* given tells that the application passed a codeChallenge
signInWithOAuth(s, p, given) ==
    IF given
    THEN request(s, p, Request(p, "oauth", 0, generateCodeChallenge(HostedVerifier), 0))
    ELSE IF isHostedAuthEnvironment(s)
    THEN request(s, p, Request(p, "oauth", 0, 0, 0))
    ELSE request(generateAndStorePkce(s), p,
                 Request(p, "oauth", 0, generateCodeChallenge(FreshVerifier), 0))

\* signInWithOAuth after its await, called with skipBrowserRedirect
signInWithOAuth_answered(s, p, r) ==
    return(s, p, IF r.st = "ok" THEN "url" ELSE "error")

(* The backend, as this revision sees it *)

AuthReply(st, tok, user, csrf) == [st |-> st, tok |-> tok, user |-> user, csrf |-> csrf]
AuthFailure(st) == AuthReply(st, 0, NullUser, 0)

EndpointOf(p) ==
    CASE p \in CallbackProcs -> "exchange"
      [] p = RestoreProc -> "refresh"
      [] OTHER -> "oauth"

\* what the backend (or the network) may answer on each endpoint
AuthReplies(kind) ==
    CASE kind = "exchange" ->
            {AuthReply("ok", nextTok, "u1", c) : c \in IF MayMint THEN {0, nextTok} ELSE {}}
            \cup {AuthFailure("ok"), AuthFailure("e400"), AuthFailure("net")}
      [] kind = "refresh" ->
            {AuthReply("ok", nextTok, u, nextTok) : u \in IF MayMint THEN {NullUser, "u1"} ELSE {}}
            \cup {AuthFailure("ok"), AuthFailure("e401"), AuthFailure("e403"),
                  AuthFailure("e404"), AuthFailure("e500"), AuthFailure("net")}
      [] OTHER -> {AuthFailure("ok"), AuthFailure("e400")}

AllAuthReplies == AuthReplies("exchange") \cup AuthReplies("refresh") \cup AuthReplies("oauth")

(* Initial state: the page as the browser loaded it, before the client is    *)
(* constructed: the URL it was opened on, what earlier pages left in         *)
(* localStorage, sessionStorage and the cookies.                              *)

NoAuthCalls == [p \in AuthProcs |-> [pc |-> "idle", result |-> "none"]]

LandingUrls ==
    {{}, {"code", "page"}, {"access_token", "user_id", "email", "name"},
     {"access_token", "user_id", "email", "csrf_token"}, {"access_token", "user_id"}}

InitAuth ==
    /\ tm = NewTokenManager("mode")
    /\ storage \in {[token |-> 0, user |-> AbsentItem],
                    [token |-> 1, user |-> "{u1}"],
                    [token |-> 1, user |-> CorruptItem]}
    /\ authFlag \in BOOLEAN
    /\ http = [userToken |-> 0, isRefreshing |-> FALSE, refreshQueue |-> <<>>]
    /\ proc = NoAuthCalls
    /\ nextTok = 2
    /\ settled = <<>>
    /\ last = NoLast
    /\ \E params \in LandingUrls : \E v \in {0, StoredVerifier} : \E c \in {0, CallbackCsrf} :
          browser = [document |-> TRUE, hosted |-> FALSE, params |-> params,
                     entries |-> 1, verifier |-> v, csrf |-> c]
    /\ wire = {}
    /\ realtime = NewRealtime

(* Actions of the start-up: one task each *)

ConstructorProc == <<"callback", 1>>

\* the calls the application has made since the construction
AuthCalled == {p \in AuthProcs \ {ConstructorProc} : proc[p].pc # "idle"}

\* new Auth(http, tokenManager): the constructor runs detectAuthCallback
Construct(fault) ==
    /\ proc[ConstructorProc].pc = "idle"
    /\ CommitAuth(detectAuthCallback(AuthState, ConstructorProc, fault))
    /\ last' = [op |-> "callback", p |-> ConstructorProc]

\* the callback handler runs again on the same URL (a duplicate event)
DuplicateCallback(p, fault) ==
    /\ p \in CallbackProcs \ {ConstructorProc}
    /\ proc[p].pc = "idle"
    /\ \A q \in CallbackProcs : q[2] < p[2] => proc[q].pc # "idle"
    /\ Cardinality(AuthCalled) < MaxCalls
    /\ CommitAuth(detectAuthCallback(AuthState, p, fault))
    /\ last' = [op |-> "callback", p |-> p]

\* the application calls auth.restoreSession()
RestoreSession ==
    /\ proc[ConstructorProc].pc # "idle"
    /\ proc[RestoreProc].pc = "idle"
    /\ Cardinality(AuthCalled) < MaxCalls
    /\ CommitAuth(restoreSession(AuthState, RestoreProc))
    /\ last' = [op |-> "call", p |-> RestoreProc]

\* the application calls auth.signInWithOAuth({provider, skipBrowserRedirect: true})
SignInWithOAuth(given) ==
    /\ proc[ConstructorProc].pc # "idle"
    /\ proc[OAuthProc].pc = "idle"
    /\ Cardinality(AuthCalled) < MaxCalls
    /\ CommitAuth(signInWithOAuth(AuthState, OAuthProc, given))
    /\ last' = [op |-> "call", p |-> OAuthProc]

\* the response to the request of p arrives, or its fetch fails
AuthResponse(p, r, fault) ==
    /\ proc[p].pc = "sent"
    /\ r \in AuthReplies(EndpointOf(p))
    /\ LET s == [AuthState EXCEPT !.nextTok = IF r.tok = nextTok THEN @ + 1 ELSE @]
       IN  CASE p \in CallbackProcs ->
                    CommitAuth(exchangeAuthorizationCode_answered(s, p, r, fault))
             [] p = RestoreProc ->
                    fault = "none" /\ CommitAuth(restoreSession_answered(s, p, r))
             [] OTHER ->
                    fault = "none" /\ CommitAuth(signInWithOAuth_answered(s, p, r))
    /\ last' = [op |-> "response", p |-> p, r |-> r]

NextAuth ==
    \/ \E fault \in StorageFaults : Construct(fault)
    \/ \E p \in CallbackProcs : \E fault \in StorageFaults : DuplicateCallback(p, fault)
    \/ RestoreSession
    \/ \E given \in BOOLEAN : SignInWithOAuth(given)
    \/ \E p \in AuthProcs : \E r \in AllAuthReplies : \E fault \in StorageFaults :
          AuthResponse(p, r, fault)

SpecAuth == InitAuth /\ [][NextAuth]_vars

\* fetch settles: the response to a code exchange arrives, or its fetch fails
FairSpecAuth ==
    /\ SpecAuth
    /\ \A p \in CallbackProcs :
          WF_vars(\E r \in AllAuthReplies : \E fault \in StorageFaults : AuthResponse(p, r, fault))

-----------------------------------------------------------------------------
(* Capability discovery: discoverCapabilities (src/unnamed/part_004),         *)
(* discoverBackendConfig (src/src/lib/session-storage.ts) and                 *)
(* detectBackendCapabilities (src/src/lib/version-detector.ts), each a        *)
(* function of the answer to GET /api/health, and the initialization that     *)
(* selects the strategy from it.                                               *)

\* components of a version string that the comparison looks at
MaxVersionParts == 3

\* Number(x) of a component that is not a number
NaN == -1

\* the components of the version strings tried: around those of '1.2.7'
VersionParts == {NaN, 1, 2, 7, 8}

MIN_REFRESH_TOKEN_VERSION == <<1, 2, 7>>

DEFAULT_CAPABILITIES == [secureSessionStorage |-> FALSE, refreshTokens |-> FALSE]

DEFAULT_CONFIG == [secureSessionStorage |-> FALSE, refreshTokens |-> FALSE]

\* a `capabilities` / `config` member of the health body: absent, or an object
\* whose two fields read true or not (an absent field reads undefined: false)
NoCaps == [present |-> FALSE, secureSessionStorage |-> FALSE, refreshTokens |-> FALSE]

CapValues ==
    {NoCaps} \cup [present : {TRUE}, secureSessionStorage : BOOLEAN, refreshTokens : BOOLEAN]

\* the `version` member: absent, a string 'a.b.c' given by its components, or
\* a value that is not a string
NoVersion == [kind |-> "missing", parts |-> <<>>]

VersionString(parts) == [kind |-> "string", parts |-> parts]

VersionValues ==
    {NoVersion, [kind |-> "number", parts |-> <<>>]}
    \cup {VersionString(parts) :
            parts \in UNION {[1..n -> VersionParts] : n \in 1..MaxVersionParts}}

\* the body of the answer: text that is not JSON, the JSON null, or an object
Body(kind, capabilities, config, version) ==
    [kind |-> kind, capabilities |-> capabilities, config |-> config, version |-> version]

Bodies ==
    {Body("unparseable", NoCaps, NoCaps, NoVersion), Body("null", NoCaps, NoCaps, NoVersion)}
    \cup {Body("object", c, NoCaps, v) : c \in CapValues, v \in VersionValues}
    \cup {Body("object", NoCaps, c, NoVersion) : c \in CapValues}

\* a body that states everything a modern backend states
ModernBody ==
    Body("object", [present |-> TRUE, secureSessionStorage |-> TRUE, refreshTokens |-> TRUE],
         [present |-> TRUE, secureSessionStorage |-> TRUE, refreshTokens |-> TRUE],
         VersionString(<<1, 2, 8>>))

\* the answers of GET /api/health: no answer (fetch throws), a status that is
\* not OK, or 200 with a body
HealthReplies ==
    {[st |-> "net", body |-> ModernBody]}
    \cup {[st |-> st, body |-> b] : st \in {"e500", "e404"}, b \in {ModernBody}}
    \cup {[st |-> "ok", body |-> b] : b \in Bodies \cup {ModernBody}}

Returned(value) == [outcome |-> "returned", value |-> value]

\* response.ok, then response.json(), then the read of a member of its value:
\* any of them failing the try block
HealthUnreadable(h) == h.st # "ok" \/ h.body.kind \in {"unparseable", "null"}

\* Fault: a discoverCapabilities that does not test response.ok.
discoverCapabilities_unchecked(h) ==
    IF h.st = "net" \/ h.body.kind \in {"unparseable", "null"}
    THEN Returned(DEFAULT_CAPABILITIES)
    ELSE IF h.body.capabilities.present
         THEN Returned([secureSessionStorage |-> h.body.capabilities.secureSessionStorage,
                        refreshTokens |-> h.body.capabilities.refreshTokens])
         ELSE Returned(DEFAULT_CAPABILITIES)

discoverCapabilities(h) ==
    IF h.st = "net" THEN Returned(DEFAULT_CAPABILITIES)                 \* catch
    ELSE IF h.st # "ok" THEN Returned(DEFAULT_CAPABILITIES)             \* !response.ok
    ELSE IF h.body.kind \in {"unparseable", "null"}
         THEN Returned(DEFAULT_CAPABILITIES)                            \* catch
    ELSE IF h.body.capabilities.present
         THEN Returned([secureSessionStorage |-> h.body.capabilities.secureSessionStorage,
                        refreshTokens |-> h.body.capabilities.refreshTokens])
         ELSE Returned(DEFAULT_CAPABILITIES)

discoverBackendConfig(h) ==
    IF h.st = "net" THEN Returned(DEFAULT_CONFIG)
    ELSE IF h.st # "ok" THEN Returned(DEFAULT_CONFIG)
    ELSE IF h.body.kind \in {"unparseable", "null"} THEN Returned(DEFAULT_CONFIG)
    ELSE IF h.body.config.present
         THEN Returned([secureSessionStorage |-> h.body.config.secureSessionStorage,
                        refreshTokens |-> h.body.config.refreshTokens])
         ELSE Returned(DEFAULT_CONFIG)

\* partsA[i] || 0: an absent component, NaN and 0 all read 0
PartOrZero(parts, i) == IF i <= Len(parts) /\ parts[i] # NaN THEN parts[i] ELSE 0

RECURSIVE compareFrom(_, _, _)
compareFrom(a, b, i) ==
    IF i > 3 THEN 0
    ELSE IF PartOrZero(a, i) < PartOrZero(b, i) THEN -1
    ELSE IF PartOrZero(a, i) > PartOrZero(b, i) THEN 1
    ELSE compareFrom(a, b, i + 1)

\* Fault: a compareVersions that stops after major and minor.
compareVersions_majorMinor(a, b) ==
    IF PartOrZero(a, 1) < PartOrZero(b, 1) THEN -1
    ELSE IF PartOrZero(a, 1) > PartOrZero(b, 1) THEN 1
    ELSE IF PartOrZero(a, 2) < PartOrZero(b, 2) THEN -1
    ELSE IF PartOrZero(a, 2) > PartOrZero(b, 2) THEN 1
    ELSE 0

compareVersions(a, b) == compareFrom(a, b, 1)

LegacyUnknown == [mode |-> "legacy", version |-> [kind |-> "unknown", parts |-> <<>>]]

detectBackendCapabilities(h) ==
    IF h.st = "net" THEN Returned(LegacyUnknown)
    ELSE IF h.st # "ok" THEN Returned(LegacyUnknown)
    ELSE IF h.body.kind \in {"unparseable", "null"} THEN Returned(LegacyUnknown)
    ELSE IF h.body.version.kind = "number" THEN Returned(LegacyUnknown)   \* a.split throws
    ELSE LET version == IF h.body.version.kind = "missing"
                        THEN VersionString(<<1, 0, 0>>) ELSE h.body.version
             supportsRefresh ==
                 compareVersions(version.parts, MIN_REFRESH_TOKEN_VERSION) >= 0
         IN  Returned([mode |-> IF supportsRefresh THEN "modern" ELSE "legacy",
                       version |-> version])

\* the page before the client is initialized, and the answer its health request
\* will get
InitDisc ==
    /\ tm = NewTokenManager("strategy")
    /\ storage \in {[token |-> 0, user |-> AbsentItem], [token |-> 1, user |-> "{u1}"]}
    /\ authFlag = FALSE
    /\ http = [userToken |-> 0, isRefreshing |-> FALSE, refreshQueue |-> <<>>]
    /\ proc = NoCalls
    /\ nextTok = 2
    /\ settled = <<>>
    /\ \E h \in HealthReplies : last = [op |-> "health", health |-> h]
    /\ browser = PlainPage
    /\ wire = {}
    /\ realtime = NewRealtime

DiscoverCapabilities ==
    /\ last.op = "health"
    /\ last' = [op |-> "discoverCapabilities", health |-> last.health,
                result |-> discoverCapabilities(last.health)]
    /\ CommitTM(State)

DiscoverBackendConfig ==
    /\ last.op = "health"
    /\ last' = [op |-> "discoverBackendConfig", health |-> last.health,
                result |-> discoverBackendConfig(last.health)]
    /\ CommitTM(State)

DetectBackendCapabilities ==
    /\ last.op = "health"
    /\ last' = [op |-> "detectBackendCapabilities", health |-> last.health,
                result |-> detectBackendCapabilities(last.health)]
    /\ CommitTM(State)

\* InsForgeClient.initializeAsync on a page without auth flag cookie: discovery,
\* selection, setStrategy; no start-up refresh is due
InitializeAsync ==
    /\ last.op = "health"
    /\ LET capabilities == discoverCapabilities(last.health).value
           s1 == setStrategy(State, createSessionStorage(capabilities))
       IN  /\ ~(capabilities.refreshTokens /\ shouldAttemptRefresh(s1))
           /\ CommitTM(s1)
           /\ last' = [op |-> "initializeAsync", health |-> last.health,
                       result |-> Returned(capabilities)]

\* compareVersions(a, b) and compareVersions(b, a), for a the version string
\* of the answer and b any version string; what else the answer holds makes no
\* difference to the function, so it is applied next to the bare answers only
CompareVersions(b) ==
    /\ last.op = "health"
    /\ last.health.st = "ok" /\ last.health.body.kind = "object"
    /\ last.health.body.version.kind = "string"
    /\ last.health.body.capabilities = NoCaps /\ last.health.body.config = NoCaps
    /\ storage.token = 0
    /\ b \in VersionValues /\ b.kind = "string"
    /\ last' = [op |-> "compareVersions", health |-> last.health, other |-> b,
                result |-> compareVersions(last.health.body.version.parts, b.parts),
                reverse |-> compareVersions(b.parts, last.health.body.version.parts)]
    /\ CommitTM(State)

NextDisc ==
    \/ DiscoverCapabilities
    \/ DiscoverBackendConfig
    \/ DetectBackendCapabilities
    \/ InitializeAsync
    \/ \E b \in VersionValues : CompareVersions(b)

SpecDisc == InitDisc /\ [][NextDisc]_vars

-----------------------------------------------------------------------------
(* The facade of the Auth module of src/src/modules/auth.ts (second          *)
(* revision): signUp, signInWithPassword, signInWithOAuth, signOut and        *)
(* getCurrentUser, called by the application of a page that is not a hosted   *)
(* auth page, over the TokenManager of token-manager.ts and the plain         *)
(* HttpClient of http-client.ts.                                               *)
(*                                                                             *)
(* The result of a call names what it gave back: "data" {data, error: null},  *)
(* "url" {data: {url}, error: null}, "ok" {error: null}, "user" {data: {user},*)
(* error: null}, "nouser" {data: null, error: null}, "error" {data: null or   *)
(* {}, error}, and "threw" when the promise of the call rejects.              *)

SignUpProc == <<"signup", 1>>           \* auth.signUp(...)
PasswordProc == <<"password", 1>>       \* auth.signInWithPassword(...)
SignOutProc == <<"signout", 1>>         \* auth.signOut()
CurrentUserProc == <<"current", 1>>     \* auth.getCurrentUser()
VerifyProc == <<"verify", 1>>           \* auth.verifyEmail(...)
FacadeProcs ==
    {SignUpProc, PasswordProc, VerifyProc, OAuthProc, SignOutProc, CurrentUserProc}

\* a response as request() hands it on: st is "ok" (the parsed body: tok, user,
\* csrf and code are its accessToken, user, csrfToken and code members), "empty"
\* (204: undefined), "notfound" (no row), a status that makes request() throw an
\* InsForgeError with that statusCode, or "net" (fetch or response.json() threw
\* an error that is no InsForgeError)
FacadeReply(st, tok, user, csrf, code) ==
    [st |-> st, tok |-> tok, user |-> user, csrf |-> csrf, code |-> code]

FacadeFailure(st) == FacadeReply(st, 0, NullUser, 0, FALSE)

\* request() throws on this reply
Throws(r) == r.st \notin {"ok", "empty", "notfound"}

\* Fault: a signUp without its catch.
signUp_answered_uncaught(s, p, r, fault) ==
    IF Throws(r) \/ r.st = "empty" THEN return(s, p, "threw")
    ELSE IF ~r.code /\ Truthy(r.tok) /\ r.user # NullUser
    THEN LET s1 == saveSessionUpTo(s, Session(r.tok, r.user), fault)
             s2 == setAuthToken(s1, r.tok)
         IN  IF saveSessionThrows(s, fault) THEN return(s1, p, "threw")
             ELSE return(IF r.csrf > 0 THEN setCsrfToken(s2, r.csrf) ELSE s2, p, "data")
    ELSE return(s, p, "data")

\* signUp after its POST /api/auth/users: reply r arrived or fetch threw
signUp_answered(s, p, r, fault) ==
    IF Throws(r) \/ r.st = "empty" THEN return(s, p, "error")
    ELSE IF ~r.code /\ Truthy(r.tok) /\ r.user # NullUser /\ ~isHostedAuthEnvironment(s)
    THEN LET s1 == saveSessionUpTo(s, Session(r.tok, r.user), fault)
             s2 == setAuthToken(s1, r.tok)
         IN  IF saveSessionThrows(s, fault) THEN return(s1, p, "error")
             ELSE return(IF r.csrf > 0 THEN setCsrfToken(s2, r.csrf) ELSE s2, p, "data")
    ELSE return(s, p, "data")

\* Fault: a signInWithPassword that saves the session whatever the response
\* and the page are.
signInWithPassword_answered_savesAlways(s, p, r, fault) ==
    IF Throws(r) \/ r.st = "empty" THEN return(s, p, "error")
    ELSE IF Truthy(r.tok) /\ r.user # NullUser
    THEN LET s1 == saveSessionUpTo(s, Session(r.tok, r.user), fault)
             s2 == setAuthToken(s1, r.tok)
         IN  IF saveSessionThrows(s, fault) THEN return(s1, p, "error")
             ELSE return(IF r.csrf > 0 THEN setCsrfToken(s2, r.csrf) ELSE s2, p, "data")
    ELSE return(s, p, "data")

\* signInWithPassword after its POST /api/auth/sessions
signInWithPassword_answered(s, p, r, fault) ==
    IF Throws(r) \/ r.st = "empty" THEN return(s, p, "error")
    ELSE IF ~r.code /\ Truthy(r.tok) /\ r.user # NullUser /\ ~isHostedAuthEnvironment(s)
    THEN LET s1 == saveSessionUpTo(s, Session(r.tok, r.user), fault)
             s2 == setAuthToken(s1, r.tok)
         IN  IF saveSessionThrows(s, fault) THEN return(s1, p, "error")
             ELSE return(IF r.csrf > 0 THEN setCsrfToken(s2, r.csrf) ELSE s2, p, "data")
    ELSE return(s, p, "data")

\* verifyEmail after its POST /api/auth/email/verify: the session is saved in
\* storage mode
verifyEmail_answered(s, p, r, fault) ==
    IF Throws(r) \/ r.st = "empty" THEN return(s, p, "error")
    ELSE IF ~r.code /\ Truthy(r.tok) /\ r.user # NullUser /\ ~isHostedAuthEnvironment(s)
    THEN LET s0 == Mode_setStorageMode(s)
             s1 == saveSessionUpTo(s0, Session(r.tok, r.user), fault)
             s2 == setAuthToken(s1, r.tok)
         IN  IF saveSessionThrows(s0, fault) THEN return(s1, p, "error")
             ELSE return(IF r.csrf > 0 THEN setCsrfToken(s2, r.csrf) ELSE s2, p, "data")
    ELSE return(s, p, "data")

\* signOut up to its await of the POST /api/auth/logout
signOut_called(s, p) ==
    request([s EXCEPT !.proc[p].stage = "logout"], p, Request(p, "logout", 0, 0, 0))

\* Fault: a signOut that leaves the token of the HttpClient in place.
signOut_answered_keepsToken(s, p, result) ==
    return(clearCsrfToken(Mode_clearSession(s)), p, result)

\* signOut after its await, whatever the POST gave: the local clear; result is
\* what the caller of signOut goes on to return
signOut_answered(s, p, result) ==
    return(clearCsrfToken(setAuthToken(Mode_clearSession(s), 0)), p, result)

\* getCurrentUser up to its await of the GET /api/auth/sessions/current
getCurrentUser_called(s, p) ==
    LET session == Mode_getSession(s)
    IN  IF ~Truthy(session.accessToken) THEN return(s, p, "nouser")
        ELSE request([setAuthToken(s, session.accessToken) EXCEPT !.proc[p].stage = "current"],
                     p, Request(p, "current", 0, 0, 0))

\* getCurrentUser after an await: reply r arrived or the request threw
getCurrentUser_answered(s, p, r) ==
    CASE s.proc[p].stage = "current" ->
            IF r.st = "e401" THEN signOut_called(s, p)
            ELSE IF Throws(r) \/ r.st = "empty" \/ r.user = NullUser
            THEN return(s, p, "error")
            ELSE request([s EXCEPT !.proc[p].stage = "profile"], p,
                         Request(p, "profile", 0, 0, 0))
      [] s.proc[p].stage = "profile" ->
            IF r.st \in {"ok", "notfound"} THEN return(s, p, "user")
            ELSE return(s, p, "error")
      [] OTHER -> signOut_answered(s, p, "nouser")

\* what the backend (or the network) may answer on each endpoint
FacadeReplies(kind) ==
    CASE kind \in {"signup", "password", "verify"} ->
            {FacadeReply("ok", nextTok, "u1", c, code) :
                c \in IF MayMint THEN {0, nextTok} ELSE {}, code \in BOOLEAN}
            \cup {FacadeFailure("ok"), FacadeFailure("empty"), FacadeFailure("e400"),
                  FacadeFailure("net")}
      [] kind = "current" ->
            {FacadeReply("ok", 0, "u1", 0, FALSE), FacadeFailure("ok"), FacadeFailure("e401"),
             FacadeFailure("e500"), FacadeFailure("net")}
      [] kind = "profile" ->
            {FacadeFailure("ok"), FacadeFailure("notfound"), FacadeFailure("e500")}
      [] OTHER -> {FacadeFailure("ok"), FacadeFailure("e400"), FacadeFailure("e401"),
                   FacadeFailure("net")}

AllFacadeReplies ==
    UNION {FacadeReplies(kind) : kind \in {"signup", "current", "profile", "logout"}}

\* the page after start-up: signed out or signed in, the session in the durable
\* store (storage mode) or in memory with a CSRF cookie (memory mode)
InitFacade ==
    /\ \E mode \in {"storage", "memory"} : \E signedIn \in BOOLEAN :
          /\ tm = [NewTokenManager("mode") EXCEPT
                      !.mode = mode,
                      !.accessToken = IF signedIn THEN 1 ELSE 0,
                      !.user = IF signedIn THEN "u1" ELSE NullUser]
          /\ storage = IF signedIn /\ mode = "storage" THEN [token |-> 1, user |-> "{u1}"]
                       ELSE [token |-> 0, user |-> AbsentItem]
          /\ http = [userToken |-> IF signedIn THEN 1 ELSE 0,
                     isRefreshing |-> FALSE, refreshQueue |-> <<>>]
          /\ \E hosted \in BOOLEAN :
                browser = [PlainPage EXCEPT
                              !.hosted = hosted,
                              !.csrf = IF signedIn /\ mode = "memory" THEN 1 ELSE 0]
    /\ authFlag = FALSE
    /\ proc = [p \in FacadeProcs |-> [pc |-> "idle", stage |-> p[1], result |-> "none"]]
    /\ nextTok = 2
    /\ settled = <<>>
    /\ last = NoLast
    /\ wire = {}
    /\ realtime = NewRealtime

\* the calls the application has made so far
FacadeCalled == {p \in FacadeProcs : proc[p].pc # "idle"}

\* the application calls auth.signUp, auth.signInWithPassword or auth.verifyEmail
SignUpOrIn(p) ==
    /\ p \in {SignUpProc, PasswordProc, VerifyProc}
    /\ proc[p].pc = "idle"
    /\ Cardinality(FacadeCalled) < MaxCalls
    /\ CommitAuth(request(AuthState, p, Request(p, p[1], 0, 0, 0)))
    /\ last' = [op |-> "call", p |-> p]

\* the application calls auth.signInWithOAuth({provider, skipBrowserRedirect: true})
FacadeSignInWithOAuth(given) ==
    /\ proc[OAuthProc].pc = "idle"
    /\ Cardinality(FacadeCalled) < MaxCalls
    /\ CommitAuth(signInWithOAuth(AuthState, OAuthProc, given))
    /\ last' = [op |-> "call", p |-> OAuthProc]

\* the application calls auth.signOut()
SignOut ==
    /\ proc[SignOutProc].pc = "idle"
    /\ Cardinality(FacadeCalled) < MaxCalls
    /\ CommitAuth(signOut_called(AuthState, SignOutProc))
    /\ last' = [op |-> "call", p |-> SignOutProc]

\* the application calls auth.getCurrentUser()
FacadeGetCurrentUser ==
    /\ proc[CurrentUserProc].pc = "idle"
    /\ Cardinality(FacadeCalled) < MaxCalls
    /\ CommitAuth(getCurrentUser_called(AuthState, CurrentUserProc))
    /\ last' = [op |-> "call", p |-> CurrentUserProc]

\* the response to the request of p arrives, or its fetch fails
FacadeResponse(p, r, fault) ==
    /\ proc[p].pc = "sent"
    /\ r \in FacadeReplies(proc[p].stage)
    /\ LET s == [AuthState EXCEPT !.nextTok = IF r.tok = nextTok THEN @ + 1 ELSE @]
       IN  CASE p = SignUpProc -> CommitAuth(signUp_answered(s, p, r, fault))
             [] p = PasswordProc -> CommitAuth(signInWithPassword_answered(s, p, r, fault))
             [] p = VerifyProc -> CommitAuth(verifyEmail_answered(s, p, r, fault))
             [] p = OAuthProc ->
                    fault = "none" /\ CommitAuth(signInWithOAuth_answered(s, p, r))
             [] p = SignOutProc -> fault = "none" /\ CommitAuth(signOut_answered(s, p, "ok"))
             [] OTHER -> fault = "none" /\ CommitAuth(getCurrentUser_answered(s, p, r))
    /\ last' = [op |-> "response", p |-> p, r |-> r, stage |-> proc[p].stage]

NextFacade ==
    \/ \E p \in FacadeProcs : SignUpOrIn(p)
    \/ \E given \in BOOLEAN : FacadeSignInWithOAuth(given)
    \/ SignOut
    \/ FacadeGetCurrentUser
    \/ \E p \in FacadeProcs : \E r \in AllFacadeReplies : \E fault \in StorageFaults :
          FacadeResponse(p, r, fault)

SpecFacade == InitFacade /\ [][NextFacade]_vars

-----------------------------------------------------------------------------
(* Realtime (src/src/modules/realtime.ts): the socket, the channels the       *)
(* client re-subscribes on every connect, and the subscribe calls whose       *)
(* acknowledgement is outstanding.  A closed or dropped socket delivers no    *)
(* more acknowledgements.                                                     *)

MaxSubscribes == 2

Channels == {"orders", "broadcast"}

\* an emit of the socket; ack is the number of the subscribe call whose
\* callback it carries, 0 when it carries none
Emit(event, channel, ack) == [event |-> event, channel |-> channel, ack |-> ack]

\* connect(): resolves at once on a connected socket, otherwise opens one
connect(r) == IF r.socket = "connected" THEN r ELSE [r EXCEPT !.socket = "connecting"]

\* the 'connect' handler: every channel of subscribedChannels is subscribed again
onConnect(r) == [r EXCEPT !.socket = "connected"]

onConnectEmits(r) == {Emit("realtime:subscribe", c, 0) : c \in r.subscribedChannels}

\* disconnect(): the socket is closed and dropped, subscribedChannels cleared
disconnect(r) == [r EXCEPT !.socket = "none", !.subscribedChannels = {}, !.pending = {}]

\* subscribe(channel) on a connected socket, up to the emit; the call awaits
\* the acknowledgement.  cancelled tells that unsubscribe(channel) was called
\* since.
subscribe(r, channel) ==
    [r EXCEPT !.calls = @ + 1,
              !.pending = @ \cup {[id |-> r.calls + 1, channel |-> channel,
                                   cancelled |-> FALSE]}]

\* the acknowledgement callback of subscribe
subscribe_acknowledged(r, e, ok) ==
    [r EXCEPT !.pending = @ \ {e},
              !.subscribedChannels = IF ok THEN @ \cup {e.channel} ELSE @]

unsubscribe(r, channel) ==
    [r EXCEPT !.subscribedChannels = @ \ {channel},
              !.pending = {IF e.channel = channel THEN [e EXCEPT !.cancelled = TRUE] ELSE e
                             : e \in @}]

InitRT ==
    /\ tm = NewTokenManager("mode")
    /\ storage = [token |-> 0, user |-> AbsentItem]
    /\ authFlag = FALSE
    /\ http = [userToken |-> 0, isRefreshing |-> FALSE, refreshQueue |-> <<>>]
    /\ proc = NoCalls
    /\ nextTok = 2
    /\ settled = <<>>
    /\ last = NoLast
    /\ browser = PlainPage
    /\ wire = {}
    /\ realtime = NewRealtime

\* the next state of Realtime is r, and the socket has emitted `emits`
CommitRT(r, emits) ==
    /\ realtime' = r
    /\ wire' = wire \cup emits
    /\ UNCHANGED <<tm, storage, authFlag, http, proc, nextTok, settled, browser>>

\* the application calls realtime.connect()
RtConnect ==
    /\ realtime.socket # "connected"
    /\ CommitRT(connect(realtime), {})
    /\ last' = [op |-> "connect", channel |-> "none", ok |-> TRUE, cancelled |-> FALSE]

\* the socket connects, the first time or after the connection dropped
RtConnected ==
    /\ realtime.socket = "connecting"
    /\ CommitRT(onConnect(realtime), onConnectEmits(realtime))
    /\ last' = [op |-> "connected", channel |-> "none", ok |-> TRUE, cancelled |-> FALSE]

\* the connection drops; the socket reconnects by itself
RtDropped ==
    /\ realtime.socket = "connected"
    /\ CommitRT([realtime EXCEPT !.socket = "connecting", !.pending = {}], {})
    /\ last' = [op |-> "dropped", channel |-> "none", ok |-> TRUE, cancelled |-> FALSE]

\* the application calls realtime.disconnect()
RtDisconnect ==
    /\ CommitRT(disconnect(realtime), {})
    /\ last' = [op |-> "disconnect", channel |-> "none", ok |-> TRUE, cancelled |-> FALSE]

\* the application calls realtime.subscribe(channel) on a connected socket
RtSubscribe(channel) ==
    /\ realtime.socket = "connected"
    /\ realtime.calls < MaxSubscribes
    /\ CommitRT(subscribe(realtime, channel),
                {Emit("realtime:subscribe", channel, realtime.calls + 1)})
    /\ last' = [op |-> "subscribe", channel |-> channel, ok |-> TRUE, cancelled |-> FALSE]

\* the application calls realtime.unsubscribe(channel)
RtUnsubscribe(channel) ==
    /\ CommitRT(unsubscribe(realtime, channel),
                IF realtime.socket = "connected"
                THEN {Emit("realtime:unsubscribe", channel, 0)} ELSE {})
    /\ last' = [op |-> "unsubscribe", channel |-> channel, ok |-> TRUE, cancelled |-> FALSE]

\* the server's acknowledgement of a subscribe call arrives
RtAcknowledged(e, ok) ==
    /\ e \in realtime.pending
    /\ realtime.socket = "connected"
    /\ CommitRT(subscribe_acknowledged(realtime, e, ok), {})
    /\ last' = [op |-> "ack", channel |-> e.channel, ok |-> ok, cancelled |-> e.cancelled]

PendingCalls ==
    [id : 1..MaxSubscribes, channel : Channels, cancelled : BOOLEAN]

NextRT ==
    \/ RtConnect
    \/ RtConnected
    \/ RtDropped
    \/ RtDisconnect
    \/ \E channel \in Channels : RtSubscribe(channel)
    \/ \E channel \in Channels : RtUnsubscribe(channel)
    \/ \E e \in PendingCalls : \E ok \in BOOLEAN : RtAcknowledged(e, ok)

SpecRT == InitRT /\ [][NextRT]_vars

-----------------------------------------------------------------------------
(* Views of a state, used by the properties *)

\* the pending performRequest calls, each as <<call, depth>>
FramesOf(s) == UNION {{<<p, d>> : d \in 1..Len(s.proc[p].stack)} : p \in Procs}

FrameAt(s, f) == s.proc[f[1]].stack[f[2]]

\* the requests awaiting a token refresh: the one that invoked the refresh
\* callback and the ones queued behind it
Waiting(s) == {f \in FramesOf(s) : FrameAt(s, f).st \in {"queued", "refreshing"}}

Initiators(s) == {f \in FramesOf(s) : FrameAt(s, f).st = "refreshing"}

\* the POSTs to /api/auth/refresh awaiting their response
RefreshCalls(s) ==
    {f \in FramesOf(s) : KindOf(s, f[1], f[2]) = "refresh" /\ FrameAt(s, f).st = "sent"}

\* f is a re-issued request awaiting its response
Reissued(s, f) == f \in FramesOf(s) /\ FrameAt(s, f).st = "sent" /\ FrameAt(s, f).retry

\* this step ends the refresh in flight
RefreshEnds == http.isRefreshing /\ ~http'.isRefreshing

\* this step delivers the response to a POST /api/auth/refresh
RefreshAnswered ==
    /\ last'.op = "response"
    /\ KindOf(State, last'.p, Depth(State, last'.p)) = "refresh"

-----------------------------------------------------------------------------
(* Properties of the refresh orchestration *)

C3_NoDoubleRetry ==
    [][ /\ \A p \in Procs : proc'[p].sends <= 2
        /\ \A f \in Waiting(State') : ~FrameAt(State', f).retry
        /\ (last'.op = "response" /\ Top(State, last'.p).retry) =>
              /\ Waiting(State') \subseteq Waiting(State)
              /\ RefreshCalls(State') \subseteq RefreshCalls(State)
              /\ \A f \in FramesOf(State') : f[1] = last'.p => ~FrameAt(State', f).retry
              /\ last'.p \in ApiProcs =>
                    /\ proc'[last'.p].pc = "done"
                    /\ proc'[last'.p].result = last'.r.st
      ]_vars

\* a re-issued application request was answered 401 and ended with that 401
C3_SecondUnauthorized ==
    \E p \in ApiProcs :
        /\ last = [op |-> "response", p |-> p, r |-> Failure("e401")]
        /\ proc[p].pc = "done"
        /\ proc[p].sends = 2
        /\ proc[p].result = "e401"

\* C6 (new token before re-issue): a request is re-issued only in the step
\* that delivers a successful refresh response, only if it waited on that
\* refresh, once, and carrying the new token, which differs from the token
\* it was first sent with and is by then the token of the Session Store and of
\* the HttpClient.
C6_NewTokenBeforeReissue ==
    [][ \A f \in FramesOf(State') :
          (Reissued(State', f) /\ ~Reissued(State, f)) =>
              /\ RefreshAnswered
              /\ last'.r.st = "ok"
              /\ f \in Waiting(State)
              /\ FrameAt(State', f).tok = last'.r.tok
              /\ FrameAt(State', f).tok # FrameAt(State, f).tok
              /\ getAccessToken(State') = last'.r.tok
              /\ http'.userToken = last'.r.tok
              /\ f[2] = 1 => proc'[f[1]].sends = 2
      ]_vars

\* a successful refresh has just re-issued its initiator and a queued waiter
C6_Reissue ==
    /\ last.op = "response"
    /\ settled # <<>>
    /\ \E p \in ApiProcs :
          /\ Reissued(State, <<p, 1>>)
          /\ Top(State, p).tok = last.r.tok
          /\ getAccessToken(State) = last.r.tok
          /\ proc[p].sends = 2

\* C8 (waiters settled in queue order, all or nothing): the step that ends a
\* refresh settles exactly the queued waiters, in the order of the queue, all
\* with the one token the refresh returned (0: all rejected), and leaves the
\* queue empty; no other step settles a waiter.
C8_QueueOrder ==
    [][ IF RefreshEnds
        THEN /\ \E k \in 0..MaxTok :
                   settled' = [i \in 1..Len(http.refreshQueue) |->
                                  <<http.refreshQueue[i][1], http.refreshQueue[i][2], k>>]
             /\ http'.refreshQueue = <<>>
             /\ \A f \in Waiting(State) : f \notin Waiting(State')
        ELSE /\ settled' = <<>>
             /\ Waiting(State) \subseteq Waiting(State')
      ]_vars

\* a refresh has just settled two waiters
C8_TwoWaiters ==
    /\ Len(settled) >= 2
    /\ settled[1][1] # settled[2][1]

\* C2 (one refresh call outstanding): at most one POST /api/auth/refresh awaits
\* its response.
C2_OneRefreshCall == Cardinality(RefreshCalls(State)) <= 1

\* C4 (refresh call not re-entrant): a POST /api/auth/refresh answered 401
\* neither invokes the refresh callback nor is queued behind the refresh in
\* flight.
C4_RefreshCallNeverWaits ==
    \A f \in Waiting(State) : KindOf(State, f[1], f[2]) # "refresh"

\* C5 (network failure keeps the session): when a refresh call fails without a
\* response, the Session Store is as before: getSession() returns what it
\* returned and the auth flag is unchanged.
C5_NetworkFailureKeepsSession ==
    [][ (RefreshAnswered /\ last'.r.st = "net") =>
            /\ getSession(State') = getSession(State)
            /\ authFlag' = authFlag
      ]_vars

\* C7 (original 401 surfaced): an application request that waited on a
\* refresh and ends without being re-issued ends with its own 401.
C7_OriginalUnauthorized ==
    [][ \A f \in Waiting(State) :
          (f[1] \in ApiProcs /\ proc'[f[1]].pc = "done") => proc'[f[1]].result = "e401"
      ]_vars

\* C9 (stale refresh response): when the successful response to a refresh call
\* sent before a sign-in saved its session arrives, the access token of the
\* Session Store and of the HttpClient stays the one the sign-in saved.
C9_StaleRefreshIgnored ==
    [][ ( /\ RefreshAnswered
          /\ last'.r.st = "ok" /\ Truthy(last'.r.tok)
          /\ Top(State, last'.p).late
          /\ getAccessToken(State) = proc[SignInProc].data
          /\ http.userToken = proc[SignInProc].data ) =>
            /\ getAccessToken(State') = proc[SignInProc].data
            /\ http'.userToken = proc[SignInProc].data
      ]_vars

\* C10 (migration preserves the session): right after setStrategy or setMode
\* switched to the other strategy while getSession() returned a session,
\* getSession() returns a session with the same access token and user.
C10_SwitchPreservesSession ==
    (last.op \in {"setStrategy", "setMode"} /\ last.from # last.to /\ last.before # NoSession)
        => TM_getSession(State) = last.before

DurableRead ==
    \/ last'.op = "getSession" /\ tm.impl # "mode" /\ DurableActive(State)
    \/ last'.op = "setStorageMode"

-----------------------------------------------------------------------------
(* Properties of the start-up of Auth *)

\* this step is a callback handler that finds a `code` parameter in the URL
HandlesCode == last'.op = "callback" /\ "code" \in browser.params

\* this step delivers the answer to the request of p
Answered(p) == last'.op = "response" /\ last'.p = p

ExchangeRequests(w) == {q \in w : q.path = "exchange"}

\* C12 (PKCE verifier single-use): a callback handler that processes a `code`
\* completes (its exchange request is sent), carries in that request the
\* verifier it found, and leaves transient storage without a verifier; the
\* answer to the exchange, success or failure, does not bring it back; a
\* duplicate handling of the code, when no new sign-in stored a verifier since,
\* finds none and sends null; no verifier is sent in two exchange requests.
C12_VerifierSingleUse ==
    [][ /\ HandlesCode =>
              /\ browser'.verifier = 0
              /\ proc'[last'.p].pc = "sent"
              /\ wire' = wire \cup {Request(last'.p, "exchange", browser.verifier, 0, 0)}
              /\ (last'.p # ConstructorProc /\ proc[OAuthProc].pc = "idle") =>
                    browser.verifier = 0
        /\ (\E p \in CallbackProcs : Answered(p)) =>
              /\ browser'.verifier = browser.verifier
              /\ proc'[last'.p].pc = "done"
        /\ \A q1 \in ExchangeRequests(wire') : \A q2 \in ExchangeRequests(wire') \ {q1} :
              q1.code_verifier = 0 \/ q1.code_verifier # q2.code_verifier
      ]_vars

\* the code was handled twice: the first exchange carried the stored verifier,
\* the second carried null, and both handlings are over
C12_SecondFindsNone ==
    /\ Request(<<"callback", 1>>, "exchange", StoredVerifier, 0, 0) \in wire
    /\ Request(<<"callback", 2>>, "exchange", 0, 0, 0) \in wire
    /\ proc[<<"callback", 1>>].pc = "done"
    /\ proc[<<"callback", 2>>].pc = "done"
    /\ browser.verifier = 0

\* C13 as stated (the verifier never leaves the client): no request the client
\* issues carries a PKCE verifier.
C13_VerifierNeverSent == \A q \in wire : q.code_verifier = 0

\* C13 (amended: the verifier goes to the exchange endpoint only): a verifier
\* is sent only as the code_verifier of a POST /api/auth/exchange; the request
\* that starts the OAuth sign-in carries the challenge, the digest of a
\* verifier and never a verifier itself.
C13_VerifierOnlyInExchange ==
    \A q \in wire :
        /\ q.code_verifier # 0 => q.path = "exchange"
        /\ q.code_challenge \notin Verifiers
        /\ q.path = "oauth" =>
              /\ q.code_verifier = 0
              /\ q.code_challenge \in {100 + v : v \in Verifiers}
              /\ browser.verifier # 0 => q.code_challenge \in {100 + browser.verifier, 100 + HostedVerifier}

\* a sign-in was started with the challenge of a fresh verifier and an
\* exchange was sent with the stored verifier
C13_ChallengeAndVerifierSent ==
    /\ Request(OAuthProc, "oauth", 0, 100 + FreshVerifier, 0) \in wire
    /\ Request(ConstructorProc, "exchange", StoredVerifier, 0, 0) \in wire
    /\ browser.verifier = FreshVerifier

\* no callback parameter is left in the URL
Scrubbed(b) == b.params \cap CallbackParams = {}

\* C14 (callback URL scrubbed): the URL changes only by losing all its callback
\* parameters at once, in place (the number of history entries never changes,
\* other parameters stay); the answer to a code exchange, success or failure,
\* leaves the URL scrubbed; and a client started on a URL with a `code`
\* eventually has a scrubbed URL.
C14_UrlScrubbed ==
    /\ [][ /\ browser'.entries = browser.entries
           /\ browser'.params \in {browser.params, browser.params \ CallbackParams}
           /\ (\E p \in CallbackProcs : Answered(p)) => Scrubbed(browser')
         ]_vars
    /\ (proc[ConstructorProc].pc # "idle" /\ "code" \in browser.params) ~> Scrubbed(browser)

\* a code exchange has just failed on the network and the URL is scrubbed, in
\* the one history entry, with its other parameter kept
C14_ScrubbedAfterFailure ==
    /\ last.op = "response"
    /\ last.p = ConstructorProc
    /\ last.r.st = "net"
    /\ browser.params = {"page"}
    /\ browser.entries = 1

\* the durable store holds one of the two records of a session without the other
PartialSession(s) == Truthy(s.storage.token) # (s.storage.user # AbsentItem)

\* C15 (callback errors are swallowed and leave no partial session): every
\* handling of an auth callback completes, and the durable store never holds a
\* token without a user record or a user record without a token.
C15_NoPartialSession ==
    /\ \A p \in CallbackProcs : proc[p].pc \in {"idle", "sent", "done"}
    /\ ~PartialSession(AuthState)

\* this step ends restoreSession() with isLoggedIn = false
RestoreReportsLoggedOut ==
    /\ proc[RestoreProc].pc # "done"
    /\ proc'[RestoreProc].pc = "done"
    /\ proc'[RestoreProc].result = "loggedOut"

\* the durable store holds a token and a user record that parses
DurableSession(s) ==
    Truthy(s.storage.token) /\ s.storage.user # AbsentItem /\ JSONvalid(s.storage.user)

C19_NotFoundIsLegacy ==
    [][ (Answered(RestoreProc) /\ last'.r.st = "e404") =>
          /\ tm'.mode = "storage"
          /\ browser' = browser
          /\ DurableSession(AuthState) =>
                /\ tm'.accessToken = storage.token
                /\ tm'.user = JSONparse(storage.user)
                /\ http'.userToken = storage.token
                /\ proc'[RestoreProc].result = "loggedIn"
                /\ storage' = storage
      ]_vars

\* a refresh answered 404 has just logged the client in from the durable store
C19_LoggedInFromStore ==
    /\ last.op = "response"
    /\ last.p = RestoreProc
    /\ last.r.st = "e404"
    /\ proc[RestoreProc].result = "loggedIn"
    /\ tm.mode = "storage"
    /\ http.userToken = storage.token
    /\ DurableSession(AuthState)

-----------------------------------------------------------------------------
(* Properties of capability discovery and strategy selection *)

\* the version string states a version of at least 1.2.7
StatesModernVersion(v) ==
    /\ v.kind = "string"
    /\ LET n1 == PartOrZero(v.parts, 1)
           n2 == PartOrZero(v.parts, 2)
           n3 == PartOrZero(v.parts, 3)
       IN  n1 > 1 \/ (n1 = 1 /\ n2 > 2) \/ (n1 = 1 /\ n2 = 2 /\ n3 >= 7)

\* C16 (discovery never throws, defaults are conservative): each discovery
\* function returns (never throws); on a network failure, a status that is not
\* OK or a body that cannot be read it returns its default (both capabilities
\* false; mode 'legacy'); it returns a capability as true only if the answer
\* was OK with a body that states it, and mode 'modern' only if the answer was
\* OK with a body whose version string states at least 1.2.7.
C16_DiscoveryNeverThrows ==
    /\ last.op \in {"discoverCapabilities", "discoverBackendConfig",
                    "detectBackendCapabilities", "initializeAsync"} =>
          last.result.outcome = "returned"
    /\ last.op = "discoverCapabilities" =>
          /\ HealthUnreadable(last.health) => last.result.value = DEFAULT_CAPABILITIES
          /\ last.result.value # DEFAULT_CAPABILITIES =>
                /\ last.health.st = "ok"
                /\ last.health.body.kind = "object"
                /\ last.health.body.capabilities.present
                /\ last.result.value.secureSessionStorage =
                      last.health.body.capabilities.secureSessionStorage
                /\ last.result.value.refreshTokens =
                      last.health.body.capabilities.refreshTokens
    /\ last.op = "discoverBackendConfig" =>
          /\ HealthUnreadable(last.health) => last.result.value = DEFAULT_CONFIG
          /\ last.result.value # DEFAULT_CONFIG =>
                /\ last.health.st = "ok"
                /\ last.health.body.kind = "object"
                /\ last.health.body.config.present
                /\ last.result.value.secureSessionStorage =
                      last.health.body.config.secureSessionStorage
                /\ last.result.value.refreshTokens = last.health.body.config.refreshTokens
    /\ last.op = "detectBackendCapabilities" =>
          /\ HealthUnreadable(last.health) => last.result.value = LegacyUnknown
          /\ last.result.value.mode = "modern" <=>
                /\ ~HealthUnreadable(last.health)
                /\ StatesModernVersion(last.health.body.version)

\* discoverCapabilities has just returned the default although the body of the
\* (failed) answer states both capabilities
C16_DefaultOnFailure ==
    /\ last.op = "discoverCapabilities"
    /\ last.health.st = "e500"
    /\ last.health.body.capabilities.secureSessionStorage
    /\ last.health.body.capabilities.refreshTokens
    /\ last.result = Returned(DEFAULT_CAPABILITIES)

\* C17 (strategy selection): createSessionStorage selects the memory-only
\* strategy exactly for the capabilities with both secureSessionStorage and
\* refreshTokens true, and the durable one for the three others; after an
\* initialization the active strategy is the one selected for the discovered
\* capabilities, the durable one if the health endpoint answered HTTP 500.
C17_StrategySelection ==
    /\ \A caps \in Capabilities :
          /\ createSessionStorage(caps) \in {"secure", "persistent"}
          /\ createSessionStorage(caps) = "secure" <=>
                (caps.secureSessionStorage /\ caps.refreshTokens)
    /\ last.op = "initializeAsync" =>
          /\ tm.strategyId = "secure" <=>
                (last.result.value.secureSessionStorage /\ last.result.value.refreshTokens)
          /\ tm.strategyId \in {"secure", "persistent"}
          /\ last.health.st = "e500" => tm.strategyId = "persistent"

\* an initialization whose health request was answered HTTP 500 has just left
\* the durable strategy active
C17_DurableAfter500 ==
    /\ last.op = "initializeAsync"
    /\ last.health.st = "e500"
    /\ tm.strategyId = "persistent"
    /\ last.result.value = DEFAULT_CAPABILITIES

-----------------------------------------------------------------------------
(* Properties of the facade *)

\* C21 (signOut clears the local session unconditionally): in the task in which
\* signOut returns, whatever the logout request gave (an answer, an error status
\* or a network failure), getSession() and getAccessToken() are null, the
\* HttpClient holds no user token, and signOut reports {error: null}.
C21_SignOutClearsLocally ==
    [][(proc[SignOutProc].pc = "sent" /\ proc'[SignOutProc].pc = "done") =>
          /\ Mode_getSession(AuthState') = NoSession
          /\ Mode_getAccessToken(AuthState') = 0
          /\ http'.userToken = 0
          /\ proc'[SignOutProc].result = "ok"]_vars

\* signOut has just returned {error: null} with nothing held locally, after a
\* logout request that failed
C21_ClearedAfterFailedLogout ==
    /\ last.op = "response" /\ last.p = SignOutProc
    /\ last.r.st \in {"e400", "e401", "net"}
    /\ proc[SignOutProc].pc = "done" /\ proc[SignOutProc].result = "ok"
    /\ tm.accessToken = 0 /\ http.userToken = 0 /\ storage.token = 0

\* C22 (a 401 on the identity fetch signs out locally): when getCurrentUser
\* returns after its GET /api/auth/sessions/current failed with 401 (at once, or
\* after the logout request of the sign-out it awaits), getSession() is null,
\* the HttpClient holds no user token and the result is {data: null, error:
\* null}; a 401 is never the error of the result.
C22_UnauthorizedSignsOut ==
    [][(proc[UserProc].pc = "run" /\ proc'[UserProc].pc = "done") =>
          /\ proc'[UserProc].result # "e401"
          /\ (\/ proc[UserProc].stage = "logout"
              \/ proc[UserProc].stage = "current" /\ proc'[UserProc].result = "nouser") =>
                /\ proc'[UserProc].result = "nouser"
                /\ getSession(State') = NoSession
                /\ http'.userToken = 0]_vars

\* getCurrentUser has just returned 'no user' on a 401 answer to its identity
\* fetch, with nothing held locally
C22_NoUserAfter401 ==
    /\ last.op = "response" /\ last.p = UserProc /\ last.r.st = "e401"
    /\ proc[UserProc].pc = "done" /\ proc[UserProc].stage = "current"
    /\ proc[UserProc].result = "nouser"
    /\ getSession(State) = NoSession /\ http.userToken = 0

\* the call whose response the task just run delivered has returned
JustReturned(p) == last.op = "response" /\ last.p = p /\ proc[p].pc = "done"

\* C23 as stated (errors are values, every failure is carried by the error
\* field): no call throws, and a call that returns on a failed request (error
\* status or network failure) returns an error with data null or empty.
C23_EveryFailureCarried ==
    /\ \A p \in FacadeProcs : proc[p].result # "threw"
    /\ \A p \in FacadeProcs : JustReturned(p) /\ Throws(last.r) => proc[p].result = "error"

\* C23, amended: no call throws; signUp, signInWithPassword and signInWithOAuth
\* return an error with data null or empty on a failed request, and so does
\* getCurrentUser, except that after a 401 on its identity fetch it returns
\* {data: null, error: null}; signOut returns {error: null} even when its logout
\* request fails; a result without error is returned on an answer that was OK
\* (for getCurrentUser also: no row for the profile).
C23_ErrorsAreValues ==
    /\ \A p \in FacadeProcs :
          proc[p].result \in {"none", "data", "url", "ok", "user", "nouser", "error"}
    /\ \A p \in {SignUpProc, PasswordProc, OAuthProc} :
          /\ JustReturned(p) /\ Throws(last.r) => proc[p].result = "error"
          /\ JustReturned(p) /\ proc[p].result \in {"data", "url"} => last.r.st = "ok"
    /\ JustReturned(CurrentUserProc) =>
          /\ last.stage = "logout" => proc[CurrentUserProc].result = "nouser"
          /\ last.stage # "logout" /\ Throws(last.r) => proc[CurrentUserProc].result = "error"
          /\ proc[CurrentUserProc].result = "user" => last.r.st \in {"ok", "notfound"}
    /\ JustReturned(SignOutProc) => proc[SignOutProc].result = "ok"

\* signUp has just returned an error for a request that failed on the network,
\* with no session saved
C23_SignUpErrorReturned ==
    /\ JustReturned(SignUpProc) /\ last.r.st = "net"
    /\ proc[SignUpProc].result = "error"
    /\ wire # {}

-----------------------------------------------------------------------------
(* Properties of the refresh orchestration, continued *)

\* C24 (an authorization failure refreshes once; a failed refresh clears): a
\* 401 or 403 answer to a request that is neither a refresh request nor a retry
\* makes that request run or await the refresh; and when the refresh request is
\* answered 401 or 403 and the request that ran it completes, getSession() is
\* null, the HttpClient holds no user token and the caller gets the failure.
C24_AuthFailureRefreshesOnce ==
    [][last'.op = "response" =>
          LET p == last'.p
              d == Depth(State, p)
          IN  /\ (/\ last'.r.st \in {"e401", "e403"}
                  /\ KindOf(State, p, d) # "refresh"
                  /\ ~Top(State, p).retry) =>
                    /\ Depth(State', p) >= d
                    /\ State'.proc[p].stack[d].st \in {"refreshing", "queued"}
              /\ (/\ last'.r.st \in {"e401", "e403"}
                  /\ d = 2 /\ p \in ApiProcs
                  /\ proc'[p].pc = "done") =>
                    /\ getSession(State') = NoSession
                    /\ http'.userToken = 0
                    /\ proc'[p].result = "e401"]_vars

-----------------------------------------------------------------------------
(* Properties of the auth callback, continued *)

\* the task just run delivered, to a code exchange, an answer with accessToken
\* and user
ExchangeSucceeded ==
    /\ last.op = "response" /\ last.p \in CallbackProcs
    /\ last.r.st = "ok" /\ Truthy(last.r.tok) /\ last.r.user # NullUser

\* C26 (a successful code exchange stores the session): after the task that
\* delivers an exchange answer with accessToken and user, getSession() returns
\* that session and the HttpClient carries its token; if the answer has a CSRF
\* token, the token manager is in memory mode, the CSRF cookie holds that token
\* and the durable store holds no access token; without a CSRF token, in
\* storage mode, the durable store holds the session once saveSession completed.
C26_ExchangeStoresSession ==
    ExchangeSucceeded =>
        /\ Mode_getSession(AuthState) = Session(last.r.tok, last.r.user)
        /\ http.userToken = last.r.tok
        /\ last.r.csrf > 0 =>
              /\ tm.mode = "memory"
              /\ getCsrfToken(AuthState) = last.r.csrf
              /\ storage.token = 0 /\ storage.user = AbsentItem
        /\ (last.r.csrf = 0 /\ tm.mode = "storage" /\ proc[last.p].result = "ok") =>
              /\ storage.token = last.r.tok
              /\ storage.user = JSONstringify(last.r.user)

\* a code exchange has just been answered with a session and a CSRF token, on a
\* page whose durable store held a session when it was loaded: memory mode, the
\* CSRF cookie set, nothing in the durable store
C26_MemoryModeAfterExchange ==
    /\ ExchangeSucceeded /\ last.r.csrf > 0
    /\ tm.mode = "memory" /\ tm.accessToken = last.r.tok
    /\ browser.csrf = last.r.csrf
    /\ storage.token = 0
    /\ proc[last.p].result = "ok"

\* C27 (legacy callback): a callback handling on a URL without code that has
\* access_token, user_id and email saves the session built from them, sets the
\* HttpClient token, selects memory mode if csrf_token is present, and leaves a
\* URL without callback parameters; on a URL that lacks one of the three it
\* changes neither the Session Store nor the URL.
C27_LegacyCallback ==
    [][(last'.op = "callback" /\ "code" \notin browser.params) =>
          IF LegacyParams \subseteq browser.params
          THEN /\ Mode_getSession(AuthState') = Session(CallbackToken, CallbackUser)
               /\ http'.userToken = CallbackToken
               /\ "csrf_token" \in browser.params => tm'.mode = "memory"
               /\ browser'.params \cap CallbackParams = {}
          ELSE /\ tm' = tm /\ storage' = storage /\ http' = http
               /\ browser' = browser]_vars

-----------------------------------------------------------------------------
(* Properties of the session store, continued *)

\* C28 (a session has a non-empty access token): in every state getSession()
\* returns null or a session whose accessToken is a non-empty string, also
\* after a sign-in whose response had no accessToken saved the token ''.
C28_SessionTokenNonEmpty ==
    \/ TM_getSession(State) = NoSession
    \/ Truthy(TM_getSession(State).accessToken)

\* a sign-in answered without accessToken has saved the token '' together with
\* the user, and getSession() returns null
C28_EmptyTokenSaved ==
    /\ last.op = "response" /\ last.p = SignInProc
    /\ last.r.st = "ok" /\ ~Truthy(last.r.tok)
    /\ proc[SignInProc].result = "ok"
    /\ getAccessToken(State) = -1
    /\ tm.strategyId = "persistent" /\ storage.user = "{u1}"
    /\ TM_getSession(State) = NoSession

\* the step applies op to a TokenManager that delegates to the strategy id
StrategyStep(id, op) ==
    tm.impl = "strategy" /\ tm.strategyId = id /\ last'.op = op

\* C29 (shouldAttemptRefresh): the memory-only strategy answers true exactly
\* when it holds no access token in memory (null or '') and the auth flag is
\* set; the durable strategy answers false in every state.
C29_ShouldAttemptRefresh ==
    [][ /\ StrategyStep("secure", "shouldAttemptRefresh") =>
              (last'.result <=> (~Truthy(tm.accessToken) /\ authFlag))
        /\ StrategyStep("persistent", "shouldAttemptRefresh") => ~last'.result
      ]_vars

\* the memory-only strategy, without token and with the auth flag set, has just
\* answered true
C29_RefreshAdvised ==
    /\ last.op = "shouldAttemptRefresh" /\ last.result
    /\ tm.strategyId = "secure" /\ tm.accessToken = 0 /\ authFlag

\* the operations of a strategy C30 speaks of
StoreOps == {"saveSession", "setAccessToken", "setUser", "clearSession", "getSession"}

\* C30 as stated (effects on the auth flag): saveSession of the memory-only
\* strategy leaves the auth flag set and its clearSession leaves it unset; no
\* operation of the durable strategy changes the auth flag.
C30_AuthFlagEffects ==
    [][ /\ StrategyStep("secure", "saveSession") => authFlag'
        /\ StrategyStep("secure", "clearSession") => ~authFlag'
        /\ (\E op \in StoreOps : StrategyStep("persistent", op)) => authFlag' = authFlag
      ]_vars

\* C30 (amended: the auth flag exists where a document does): in a host with a
\* document, saveSession of the memory-only strategy leaves the auth flag set
\* and its clearSession leaves it unset; in a host without document neither
\* sets it; no operation of the durable strategy changes the auth flag.
C30_AuthFlagEffectsInDocument ==
    [][ /\ (StrategyStep("secure", "saveSession") /\ browser.document) => authFlag'
        /\ (StrategyStep("secure", "clearSession") /\ browser.document) => ~authFlag'
        /\ (tm.impl = "strategy" /\ tm.strategyId = "secure" /\ ~browser.document)
              => authFlag' = authFlag /\ ~authFlag
        /\ (\E op \in StoreOps : StrategyStep("persistent", op)) => authFlag' = authFlag
      ]_vars

\* saveSession of the memory-only strategy has just set the auth flag in a page
C30_FlagSetBySave ==
    /\ last.op = "saveSession"
    /\ tm.impl = "strategy" /\ tm.strategyId = "secure"
    /\ browser.document /\ authFlag
    /\ tm.accessToken > 0

-----------------------------------------------------------------------------
(* Properties of the refresh orchestration, continued *)

\* the orchestrator is idle: no refresh in progress and nobody waiting on one
Idle == ~http.isRefreshing /\ http.refreshQueue = <<>>

\* C31 (the refresh orchestration terminates): when every network call gets a
\* response, every call in progress eventually returns, every waiter in
\* refreshQueue is eventually settled, and the orchestrator eventually is idle
\* again.
C31_RefreshTerminates ==
    /\ \A p \in Procs : (proc[p].pc = "run") ~> (proc[p].pc = "done")
    /\ (~Idle) ~> Idle

-----------------------------------------------------------------------------
(* Properties relating the Session Store and the HttpClient *)

\* no call of the client is in progress: none awaits a response or a refresh
Quiescent == \A p \in DOMAIN proc : proc[p].pc \in {"idle", "done"}

\* the HttpClient's user token and the token manager's access token are equal,
\* or both are absent (null or '')
TokensAgree(s) ==
    \/ s.http.userToken = TM_getAccessToken(s)
    \/ ~Truthy(s.http.userToken) /\ ~Truthy(TM_getAccessToken(s))

\* C32 (the bearer token follows the Session Store): whenever no call of the
\* client is in progress, the HttpClient's user token equals the access token
\* held by the token manager, or both are absent.
C32_BearerFollowsStore == Quiescent => TokensAgree(State)

\* the task just run is the signOut() that getCurrentUser calls on a 401: it
\* has completed its local clear, and the application has started no sign-in
SignedOut ==
    /\ last.op = "response" /\ last.p = UserProc
    /\ proc[UserProc].pc = "done" /\ proc[UserProc].result = "nouser"
    /\ proc[UserProc].stage \in {"current", "logout"}
    /\ proc[SignInProc].pc = "idle"

NoToken(s) == ~Truthy(getAccessToken(s)) /\ ~Truthy(s.http.userToken)

\* C33 (signOut is final): once signOut has cleared the session locally, the
\* next task puts no access token back into the Session Store or onto the
\* HttpClient; in particular the response to a refresh that was in flight when
\* signOut ran does not.
C33_SignOutIsFinal ==
    [][ (SignedOut /\ NoToken(State)) => NoToken(State') ]_vars

-----------------------------------------------------------------------------
(* Properties of the TokenManager, continued *)

EmptyStore == [token |-> 0, user |-> AbsentItem]

\* C34 (memory-only leaves nothing durable): while the memory-only strategy or
\* mode is active, after the switch to it, the durable store holds no access
\* token and no user record.
C34_NothingDurableInMemoryMode == ~DurableActive(State) => storage = EmptyStore

\* the operations of the mode-based TokenManager C35 speaks of
ModeOps ==
    {"setStorageMode", "setMemoryMode", "saveSession", "setAccessToken", "setUser",
     "clearSession"}

\* C35 (storage mode mirrors the durable record): after any operations of the
\* mode-based TokenManager that end in storage mode, getAccessToken() is
\* non-null exactly when the durable store holds a token, and the two are equal.
C35_StorageModeMirrors ==
    (tm.impl = "mode" /\ tm.mode = "storage" /\ last.op \in ModeOps)
        => Mode_getAccessToken(State) = storage.token

-----------------------------------------------------------------------------
(* Properties of the Auth facade, continued *)

\* this step delivers the response to signUp or signInWithPassword
SignUpOrInAnswered(p) ==
    /\ p \in {SignUpProc, PasswordProc}
    /\ proc[p].pc = "sent" /\ proc'[p].pc = "done"

\* C36 (a failed sign-in or sign-up changes nothing): the task in which signUp
\* or signInWithPassword returns a non-null error leaves the Session Store
\* (memory and durable), the HttpClient's user token, the CSRF token and the
\* storage mode as they were.
C36_FailureChangesNothing ==
    [][ \A p \in {SignUpProc, PasswordProc} :
          (SignUpOrInAnswered(p) /\ proc'[p].result = "error") =>
              /\ UNCHANGED <<tm, storage>>
              /\ http'.userToken = http.userToken
              /\ browser'.csrf = browser.csrf
      ]_vars

\* C37 (in PKCE mode no session is established locally): when the response to
\* signUp, signInWithPassword or verifyEmail contains an authorization code, or
\* the page belongs to the hosted auth app, the Session Store, the HttpClient's
\* user token and the CSRF token stay as they were and the response is
\* returned as data.
C37_NoLocalSessionInPkce ==
    [][ \A p \in {SignUpProc, PasswordProc, VerifyProc} :
          ( /\ proc[p].pc = "sent" /\ proc'[p].pc = "done"
            /\ last'.r.st = "ok"
            /\ last'.r.code \/ browser.hosted ) =>
              /\ UNCHANGED <<tm, storage>>
              /\ http'.userToken = http.userToken
              /\ browser'.csrf = browser.csrf
              /\ proc'[p].result = "data"
      ]_vars

\* signInWithPassword has just returned a response that carries a code next to
\* an access token and a CSRF token, and holds neither
C37_CodeReturnedNothingSaved ==
    /\ last.op = "response" /\ last.p = PasswordProc
    /\ last.r.st = "ok" /\ last.r.code /\ Truthy(last.r.tok) /\ last.r.csrf > 0
    /\ proc[PasswordProc].result = "data"
    /\ tm.accessToken # last.r.tok /\ http.userToken # last.r.tok
    /\ browser.csrf # last.r.csrf

-----------------------------------------------------------------------------
(* Properties of the version detection *)

\* (major, minor, patch) of a version string: a missing component, and one
\* that is no number, count as 0
Triple(parts) == <<PartOrZero(parts, 1), PartOrZero(parts, 2), PartOrZero(parts, 3)>>

\* x is lexicographically greater than y
LexGreater(x, y) ==
    \/ x[1] > y[1]
    \/ x[1] = y[1] /\ x[2] > y[2]
    \/ x[1] = y[1] /\ x[2] = y[2] /\ x[3] > y[3]

\* C38 (version-based detection): detectBackendCapabilities reports 'modern'
\* exactly when the health endpoint answered OK with a version whose (major,
\* minor, patch) is lexicographically at least (1, 2, 7), a missing version
\* counting as 1.0.0; compareVersions returns -1, 0 or 1, tells the
\* lexicographic order of the triples, and is antisymmetric.
C38_VersionDetection ==
    /\ last.op = "detectBackendCapabilities" =>
          LET v == last.health.body.version
              triple == IF v.kind = "missing" THEN <<1, 0, 0>> ELSE Triple(v.parts)
          IN  /\ last.result.value.mode = "modern" <=>
                    /\ last.health.st = "ok"
                    /\ last.health.body.kind = "object"
                    /\ v.kind \in {"string", "missing"}
                    /\ triple = <<1, 2, 7>> \/ LexGreater(triple, <<1, 2, 7>>)
              /\ (~HealthUnreadable(last.health) /\ v.kind = "missing") =>
                    last.result.value.version = VersionString(<<1, 0, 0>>)
    /\ last.op = "compareVersions" =>
          LET x == Triple(last.health.body.version.parts)
              y == Triple(last.other.parts)
          IN  /\ last.result \in {-1, 0, 1}
              /\ last.result = -last.reverse
              /\ last.result = 1 <=> LexGreater(x, y)
              /\ last.result = -1 <=> LexGreater(y, x)
              /\ last.result = 0 <=> x = y

\* '1.2' has just been compared with '1.2.7': less, and the reverse greater
C38_MissingPatchIsLess ==
    /\ last.op = "compareVersions"
    /\ last.health.body.version.parts = <<1, 2>> /\ last.other.parts = <<1, 2, 7>>
    /\ last.result = -1 /\ last.reverse = 1

-----------------------------------------------------------------------------
(* Properties of Realtime *)

\* C39 (the channel set follows the caller's last request): a channel enters
\* getSubscribedChannels() only by an ok acknowledgement of a subscribe for
\* it; unsubscribe(channel) and disconnect() take it out; and the
\* acknowledgement of a subscribe that unsubscribe(channel) was called after
\* does not put the channel back.
C39_ChannelsFollowLastRequest ==
    [][ /\ \A c \in realtime'.subscribedChannels \ realtime.subscribedChannels :
              last'.op = "ack" /\ last'.channel = c /\ last'.ok
        /\ last'.op = "unsubscribe" => last'.channel \notin realtime'.subscribedChannels
        /\ last'.op = "disconnect" => realtime'.subscribedChannels = {}
        /\ (last'.op = "ack" /\ last'.cancelled
              /\ last'.channel \notin realtime.subscribedChannels
              /\ \A e \in realtime'.pending : e.channel # last'.channel) =>
                 last'.channel \notin realtime'.subscribedChannels
      ]_vars

====
